---- MODULE Spec2Model ----
(***************************************************************************)
(* Model of the ride matcher's MatchingEngine (one match() call) and of    *)
(* the matchers it consults.                                               *)
(*                                                                         *)
(* Geometry.  Homes and the event lie on one meridian, one position step   *)
(* being the latitude difference whose haversine distance times the 1.4    *)
(* road factor is exactly one mile, so the distance matrix holds           *)
(* |posA - posB| miles.  A person without homeCoordinates has position     *)
(* NoCoord and +Infinity matrix entries.                                   *)
(*                                                                         *)
(* Numbers.  JavaScript numbers are modelled by integers with the three    *)
(* sentinels Infinity, NegInfinity and NaN; weighted scores are exact      *)
(* fractions compared by cross-multiplication; instants are integer        *)
(* milliseconds, truncated the way the Date constructor truncates.         *)
(***************************************************************************)
EXTENDS Integers, Sequences, FiniteSets, TLC

VARIABLES
    passengers,          \* input: sequence of passenger records
    drivers,             \* input: sequence of driver records
    eventPos,            \* input: eventLocation.coordinates
    tripDirection,       \* input: TO_EVENT or FROM_EVENT
    eventStartTime,      \* input: instant, or undefined
    config,              \* effective MatchingConfig of the run
    pc,                  \* position in match(): start, phase1, sweep, build, done, error
    contextBuilt,        \* TRUE once buildContext has returned
    availablePassengers, \* context.availablePassengers (a Set, in insertion order)
    availableSeats,      \* context.availableSeats
    assignments,         \* context.assignments
    queue,               \* phase-1 calls of assignPassengersToDriver still to make
    processed,           \* phase-1 calls made so far, in order
    swept,               \* passengers the sweep pass assigned, in order
    result,              \* the MatchingResult, once match() has returned
    steps,               \* the ledger right after each single assignment of the last pass
    configs,             \* ConfigManager.configs: stored configurations by id
    defaultConfigId,     \* ConfigManager.defaultConfigId
    lastCall,            \* the last call made on the ConfigManager or of match() with overrides
    thrown,              \* TRUE when that call threw
    effectiveConfig,     \* effectiveConfig of the last match() with overrides
    previous,            \* outcomes of the earlier calls of match() with these inputs
    resultsStore         \* resultsStore of the routes: the stored results by result id

\* the variables of a run of match()
matchVars == << passengers, drivers, eventPos, tripDirection, eventStartTime, config,
                pc, contextBuilt, availablePassengers, availableSeats, assignments,
                queue, processed, swept, result, steps >>

\* the variables of the configuration
configVars == << configs, defaultConfigId, lastCall, thrown, effectiveConfig >>

vars == << matchVars, configVars, previous, resultsStore >>

inputs == << passengers, drivers, eventPos, tripDirection, eventStartTime, config >>

-----------------------------------------------------------------------------
(* Bounds of the model *)

\* Home positions range over 0..MaxPos.
MaxPos == 7
\* availableSeats of a driver ranges over 0..MaxSeats.
MaxSeats == 3

-----------------------------------------------------------------------------
(* Values *)

TO_EVENT == "to_event"
FROM_EVENT == "from_event"

MALE == "male"
FEMALE == "female"
PREFER_NOT_TO_SAY == "prefer_not_to_say"

SAME_GENDER == "same_gender"
ANY == "any"

\* JavaScript undefined, for numeric fields
undefined == -1
\* a person without homeCoordinates
NoCoord == -1

Infinity == 1000000
NegInfinity == -1000000
NaN == -2000000

\* IEEE addition on the modelled values
Add(a, b) ==
    IF a = NaN \/ b = NaN THEN NaN
    ELSE IF a = Infinity THEN (IF b = NegInfinity THEN NaN ELSE Infinity)
    ELSE IF a = NegInfinity THEN (IF b = Infinity THEN NaN ELSE NegInfinity)
    ELSE IF b = Infinity \/ b = NegInfinity THEN b
    ELSE a + b

Neg(a) == IF a = NaN THEN NaN
          ELSE IF a = Infinity THEN NegInfinity
          ELSE IF a = NegInfinity THEN Infinity
          ELSE 0 - a

Sub(a, b) == Add(a, Neg(b))

\* IEEE comparisons: every comparison with NaN is false
Lt(a, b) == a # NaN /\ b # NaN /\ a < b
Gt(a, b) == Lt(b, a)

Abs(x) == IF x < 0 THEN 0 - x ELSE x
Max(a, b) == IF a >= b THEN a ELSE b
Min(a, b) == IF a <= b THEN a ELSE b

\* ceiling of a / b for a >= 0, b > 0
CeilDiv(a, b) == (a + b - 1) \div b

RECURSIVE SumSeq(_)
SumSeq(s) == IF s = << >> THEN 0 ELSE Head(s) + SumSeq(Tail(s))

SeqToSet(s) == { s[i] : i \in 1..Len(s) }

\* s without the element x (Set.delete on an insertion-ordered Set)
RECURSIVE Remove(_, _)
Remove(s, x) ==
    IF s = << >> THEN << >>
    ELSE IF Head(s) = x THEN Tail(s)
    ELSE << Head(s) >> \o Remove(Tail(s), x)

-----------------------------------------------------------------------------
(* Default configuration *)

\* DEFAULT_CONFIG.weights, in hundredths
wRouteEfficiency == 40
wDetour == 25
wGenderMatch == 15
wAgeMatch == 5
wDriverPreference == 15

\* DEFAULT_CONFIG.groupByAgeRange
groupByAgeRange == 15

\* DEFAULT_CONFIG.timing.loadTimeMinutes
loadTimeMinutes == 3

\* DEFAULT_CONFIG.timing.trafficBufferMultiplier, in tenths
trafficBufferTenths == 13

MsPerMinute == 60000
MsPerHour == 60 * MsPerMinute

-----------------------------------------------------------------------------
(* Identifiers and the distance matrix (buildContext) *)

EventId == << "event", 0 >>
PId(i) == << "p", i >>
DId(j) == << "d", j >>

\* coordsMap of buildContext: the position of an id, NoCoord when it has none
coordsMap(id) ==
    IF id[1] = "event" THEN eventPos
    ELSE IF id[1] = "p" THEN passengers[id[2]].pos
    ELSE drivers[id[2]].pos

\* haversineDistance(from, to) * 1.4 for two coordinates on the meridian
roadDistance(fromCoord, toCoord) == Abs(fromCoord - toCoord)

\* context.distanceMatrix.get(fromId).get(toId)
distanceMatrix(fromId, toId) ==
    IF fromId = toId THEN 0
    ELSE IF coordsMap(fromId) # NoCoord /\ coordsMap(toId) # NoCoord
         THEN roadDistance(coordsMap(fromId), coordsMap(toId))
         ELSE Infinity

isOutbound == tripDirection = FROM_EVENT

\* context.driverDirectDistances.get(driver.id)
driverDirectDistances(d) ==
    IF tripDirection = FROM_EVENT
    THEN distanceMatrix(EventId, DId(d))
    ELSE distanceMatrix(DId(d), EventId)

\* BaseMatcher.getDistance
getDistance(fromId, toId) == distanceMatrix(fromId, toId)

\* BaseMatcher.getDistanceFromEvent
getDistanceFromEvent(personId) == distanceMatrix(personId, EventId)

\* BaseMatcher.getDriverDirectDistance
getDriverDirectDistance(d) == driverDirectDistances(d)

\* activePassengers leaving out the passengers an earlier call has matched
activePassengersNotYetMatched ==
    SelectSeq([i \in 1..Len(passengers) |-> i],
              LAMBDA i : /\ passengers[i].needsRide
                         /\ \A c \in 1..Len(previous) :
                              \A g \in 1..Len(previous[c].result.rideGroups) :
                                  \A k \in 1..Len(previous[c].result.rideGroups[g].passengers) :
                                      previous[c].result.rideGroups[g].passengers[k].id # i)

\* match(): the two input filters
activePassengers ==
    SelectSeq([i \in 1..Len(passengers) |-> i], LAMBDA i : passengers[i].needsRide)

\* activeDrivers without the test of availableSeats
activeDriversCanDrive ==
    SelectSeq([j \in 1..Len(drivers) |-> j], LAMBDA j : drivers[j].canDrive)

activeDrivers ==
    SelectSeq([j \in 1..Len(drivers) |-> j],
              LAMBDA j : drivers[j].canDrive /\ drivers[j].availableSeats > 0)

-----------------------------------------------------------------------------
(* Matchers *)

\* a matcher's answer: null, or the score num / den
Null == [null |-> TRUE, num |-> 0, den |-> 1]
Score(n, d) == [null |-> FALSE, num |-> n, den |-> d]

\* getDynamicSpeed (TimingMatcher and MatchingEngine carry the same copy)
getDynamicSpeed(distanceMiles) ==
    IF distanceMiles < 5 THEN 20
    ELSE IF distanceMiles < 15 THEN 35
    ELSE 55

\* (distance / speed) * 60 * trafficBufferMultiplier * 60000 milliseconds,
\* rounded up: subtracted from an integer instant and truncated by new Date()
travelTimeMs(distanceMiles) ==
    CeilDiv(distanceMiles * 6 * trafficBufferTenths * MsPerMinute,
            getDynamicSpeed(distanceMiles))

\* Date.getUTCHours
getUTCHours(t) == (t \div MsPerHour) % 24

\* TimingMatcher.calculatePickupTime; null is modelled by undefined
calculatePickupTime(p) ==
    IF eventStartTime = undefined THEN undefined
    ELSE IF getDistanceFromEvent(PId(p)) = Infinity THEN undefined
    ELSE eventStartTime - travelTimeMs(getDistanceFromEvent(PId(p)))
                        - loadTimeMinutes * MsPerMinute

\* scoreInboundTiming without the test of the pickup hour
scoreInboundTimingAnyHour(p, d) ==
    IF eventStartTime = undefined THEN Score(5, 10)
    ELSE IF calculatePickupTime(p) = undefined THEN Null
    ELSE Score(7, 10)

\* TimingMatcher.scoreInboundTiming
scoreInboundTiming(p, d) ==
    IF eventStartTime = undefined THEN Score(5, 10)
    ELSE IF calculatePickupTime(p) = undefined THEN Null
    ELSE IF getUTCHours(eventStartTime) < 12 /\ getUTCHours(calculatePickupTime(p)) < 5
         THEN Null
    ELSE IF getUTCHours(eventStartTime) >= 12 /\ getUTCHours(calculatePickupTime(p)) < 6
         THEN Null
    ELSE Score(7, 10)

\* scoreOutboundTiming without its case 1 (early passenger, non-early driver)
scoreOutboundTimingNoCase1(p, d) ==
    LET P == passengers[p]
        D == drivers[d]
    IN  IF ~P.leavingEarly /\ D.leavingEarly THEN Null
        ELSE IF P.leavingEarly /\ D.leavingEarly
             THEN IF /\ P.earlyDepartureTime # undefined
                     /\ D.earlyDepartureTime # undefined
                     /\ P.earlyDepartureTime < D.earlyDepartureTime
                  THEN Null
                  ELSE Score(10, 10)
        ELSE Score(5, 10)

\* scoreOutboundTiming without the comparison of the departure times
scoreOutboundTimingAnyTimes(p, d) ==
    LET P == passengers[p]
        D == drivers[d]
    IN  IF P.leavingEarly /\ ~D.leavingEarly THEN Null
        ELSE IF ~P.leavingEarly /\ D.leavingEarly THEN Null
        ELSE IF P.leavingEarly /\ D.leavingEarly THEN Score(10, 10)
        ELSE Score(5, 10)

\* TimingMatcher.scoreOutboundTiming
scoreOutboundTiming(p, d) ==
    LET P == passengers[p]
        D == drivers[d]
    IN  IF P.leavingEarly /\ ~D.leavingEarly THEN Null
        ELSE IF ~P.leavingEarly /\ D.leavingEarly THEN Null
        ELSE IF P.leavingEarly /\ D.leavingEarly
             THEN IF /\ P.earlyDepartureTime # undefined
                     /\ D.earlyDepartureTime # undefined
                     /\ P.earlyDepartureTime < D.earlyDepartureTime
                  THEN Null
                  ELSE Score(10, 10)
        ELSE Score(5, 10)

\* TimingMatcher.scorePassenger
TimingMatcher_scorePassenger(p, d) ==
    IF tripDirection = TO_EVENT
    THEN scoreInboundTiming(p, d)
    ELSE scoreOutboundTiming(p, d)

\* RouteEfficiencyMatcher.calculateRouteViaPassenger
calculateRouteViaPassenger(p, d) ==
    IF tripDirection = FROM_EVENT
    THEN Add(getDistanceFromEvent(PId(p)), getDistance(PId(p), DId(d)))
    ELSE Add(getDistance(DId(d), PId(p)), getDistanceFromEvent(PId(p)))

\* RouteEfficiencyMatcher.scorePassenger without the inbound detour limit
RouteEfficiencyMatcher_scorePassengerNoLimit(p, d) ==
    LET directDistance == getDriverDirectDistance(d)
        routeViaPassenger == calculateRouteViaPassenger(p, d)
    IN  IF routeViaPassenger = Infinity \/ directDistance = Infinity THEN Null
        ELSE Score(Max(0, Min(routeViaPassenger, 2 * directDistance - routeViaPassenger)),
                   routeViaPassenger)

\* RouteEfficiencyMatcher.scorePassenger:
\* clamp((direct / route - 0.5) * 2, 0, 1) = clamp(2 * direct - route, 0, route) / route
RouteEfficiencyMatcher_scorePassenger(p, d) ==
    LET directDistance == getDriverDirectDistance(d)
        routeViaPassenger == calculateRouteViaPassenger(p, d)
    IN  IF routeViaPassenger = Infinity \/ directDistance = Infinity THEN Null
        ELSE IF /\ tripDirection = TO_EVENT
                /\ routeViaPassenger - directDistance > config.maxDetourMiles
             THEN Null
        ELSE Score(Max(0, Min(routeViaPassenger, 2 * directDistance - routeViaPassenger)),
                   routeViaPassenger)

\* DetourMatcher.calculateRouteDistance: the legs origin -> ids -> destination
RECURSIVE routeLegs(_, _, _)
routeLegs(currentLocation, passengerIds, destination) ==
    IF passengerIds = << >>
    THEN distanceMatrix(currentLocation, destination)
    ELSE Add(distanceMatrix(currentLocation, PId(Head(passengerIds))),
             routeLegs(PId(Head(passengerIds)), Tail(passengerIds), destination))

calculateRouteDistance(passengerIds, d) ==
    IF passengerIds = << >> THEN getDriverDirectDistance(d)
    ELSE routeLegs(IF isOutbound THEN EventId ELSE DId(d),
                   passengerIds,
                   IF isOutbound THEN DId(d) ELSE EventId)

\* DetourMatcher.calculateTotalDetour
DetourMatcher_calculateTotalDetour(d, assignedPassengerIds) ==
    Sub(calculateRouteDistance(assignedPassengerIds, d), getDriverDirectDistance(d))

\* DetourMatcher.scorePassenger, in tenths of maxDetourMiles:
\* max(0, 1 - incremental / maxDetour) = max(0, 10 * (maxDetour - incremental)) / (10 * maxDetour)
DetourMatcher_scorePassenger(p, d) ==
    LET currentAssignments == assignments[d]
        currentRouteDistance == calculateRouteDistance(currentAssignments, d)
        newRouteDistance == calculateRouteDistance(Append(currentAssignments, p), d)
        incrementalDetour == newRouteDistance - currentRouteDistance
        totalDetour == newRouteDistance - getDriverDirectDistance(d)
    IN  IF tripDirection = TO_EVENT /\ totalDetour > config.maxDetourMiles THEN Null
        ELSE Score(Max(0, 10 * (config.maxDetourMiles - incrementalDetour)),
                   10 * config.maxDetourMiles)

\* isGenderMatch of the model types
isGenderMatch(passengerGender, driverGender, preference) ==
    IF preference = ANY THEN TRUE
    ELSE IF passengerGender = PREFER_NOT_TO_SAY THEN TRUE
    ELSE IF driverGender = PREFER_NOT_TO_SAY THEN TRUE
    ELSE passengerGender = driverGender

\* GenderMatcher.scorePassenger
GenderMatcher_scorePassenger(p, d) ==
    LET P == passengers[p]
        matches == isGenderMatch(P.gender, drivers[d].gender, P.genderPreference)
    IN  IF P.genderPreference = SAME_GENDER /\ ~matches
        THEN IF config.enforceGenderPreference THEN Null ELSE Score(2, 10)
        ELSE IF matches THEN Score(10, 10) ELSE Score(6, 10)

\* AgeMatcher.scorePassenger, over the denominator 150
AgeMatcher_scorePassenger(p, d) ==
    LET ageDiff == Abs(passengers[p].age - drivers[d].age)
    IN  IF ageDiff <= groupByAgeRange
        THEN Score(150 - 5 * ageDiff, 150)
        ELSE Score(Max(15, 75 - 3 * (ageDiff - groupByAgeRange)), 150)

\* DriverPreferenceMatcher.scorePassenger
DriverPreferenceMatcher_scorePassenger(p, d) == Score(1, 2)

-----------------------------------------------------------------------------
(* Scoring (MatchingEngine.scorePassengersForDriver) *)

\* detourScore ?? 0.1
effectiveDetourScore(detourScore) ==
    IF detourScore.null
    THEN Score(config.maxDetourMiles, 10 * config.maxDetourMiles)
    ELSE detourScore

\* The weighted total of one pair.  The five fractions have the denominators
\* route (the route via the passenger), 10 * maxDetourMiles, 10, 150 and 2;
\* the total is num / (den * 10 * maxDetourMiles * 300 * 100) with den = route,
\* so that two scores of one driver compare by num * den' against num' * den.
totalScore(p, d, routeScore, detourScore, genderScore, ageScore, prefScore) ==
    [ passenger |-> p,
      num |-> wRouteEfficiency * routeScore.num * detourScore.den * 300
              + wDetour * detourScore.num * routeScore.den * 300
              + ( wGenderMatch * genderScore.num * (300 \div genderScore.den)
                  + wAgeMatch * ageScore.num * (300 \div ageScore.den)
                  + wDriverPreference * prefScore.num * (300 \div prefScore.den) )
                * routeScore.den * detourScore.den,
      den |-> routeScore.den ]

\* one iteration of the loop of scorePassengersForDriver: the score entry of
\* the pair, or no entry when a matcher hard-rejects it
scoreEntry(p, d) ==
    IF TimingMatcher_scorePassenger(p, d).null THEN << >>
    ELSE IF RouteEfficiencyMatcher_scorePassenger(p, d).null THEN << >>
    ELSE IF GenderMatcher_scorePassenger(p, d).null THEN << >>
    ELSE << totalScore(p, d,
                       RouteEfficiencyMatcher_scorePassenger(p, d),
                       effectiveDetourScore(DetourMatcher_scorePassenger(p, d)),
                       GenderMatcher_scorePassenger(p, d),
                       AgeMatcher_scorePassenger(p, d),
                       DriverPreferenceMatcher_scorePassenger(p, d)) >>

RECURSIVE scorePassengersForDriver(_, _)
scorePassengersForDriver(ps, d) ==
    IF ps = << >> THEN << >>
    ELSE scoreEntry(Head(ps), d) \o scorePassengersForDriver(Tail(ps), d)

\* b.score - a.score < 0, the comparator of scores.sort putting a before b
scoreGreater(a, b) == a.num * b.den > b.num * a.den

\* insertScore putting x before the first entry that does not beat it
RECURSIVE insertScoreTiesFirst(_, _)
insertScoreTiesFirst(sorted, x) ==
    IF sorted = << >> THEN << x >>
    ELSE IF ~scoreGreater(Head(sorted), x) THEN << x >> \o sorted
    ELSE << Head(sorted) >> \o insertScoreTiesFirst(Tail(sorted), x)

\* Array.prototype.sort is stable: x goes before the first entry it beats
RECURSIVE insertScore(_, _)
insertScore(sorted, x) ==
    IF sorted = << >> THEN << x >>
    ELSE IF scoreGreater(x, Head(sorted)) THEN << x >> \o sorted
    ELSE << Head(sorted) >> \o insertScore(Tail(sorted), x)

RECURSIVE sortScores(_)
sortScores(scores) ==
    IF scores = << >> THEN << >>
    ELSE insertScore(sortScores(SubSeq(scores, 1, Len(scores) - 1)), scores[Len(scores)])

-----------------------------------------------------------------------------
(* Passenger assignment *)

\* the mutable ledger of the context
Ledger == [ availablePassengers |-> availablePassengers,
            availableSeats |-> availableSeats,
            assignments |-> assignments ]

\* assignLoop without the inbound test of the detour
RECURSIVE assignLoopNoDetourTest(_, _, _, _, _)
assignLoopNoDetourTest(scores, seatsUsed, remainingSeats, asg, d) ==
    IF scores = << >> THEN asg
    ELSE IF seatsUsed >= remainingSeats THEN asg
    ELSE IF Head(scores).num <= 0 THEN asg
    ELSE assignLoopNoDetourTest(Tail(scores), seatsUsed + 1, remainingSeats,
                                Append(asg, Head(scores).passenger), d)

\* the assignment loop of assignPassengersToDriver over the sorted scores;
\* asg is context.assignments.get(driver.id) as it grows
RECURSIVE assignLoop(_, _, _, _, _)
assignLoop(scores, seatsUsed, remainingSeats, asg, d) ==
    IF scores = << >> THEN asg
    ELSE IF seatsUsed >= remainingSeats THEN asg
    ELSE IF Head(scores).num <= 0 THEN asg
    ELSE IF /\ tripDirection = TO_EVENT
            /\ Gt(DetourMatcher_calculateTotalDetour(d, Append(asg, Head(scores).passenger)),
                  config.maxDetourMiles)
         THEN assignLoop(Tail(scores), seatsUsed, remainingSeats, asg, d)
    ELSE assignLoop(Tail(scores), seatsUsed + 1, remainingSeats,
                    Append(asg, Head(scores).passenger), d)

\* the candidates of a driver: the available passengers, the early ones
\* only for an early driver of an outbound run
candidates(earlyOnly) ==
    IF earlyOnly /\ tripDirection = FROM_EVENT
    THEN SelectSeq(availablePassengers, LAMBDA p : passengers[p].leavingEarly)
    ELSE availablePassengers

\* MatchingEngine.assignPassengersToDriver: the ledger after the call
assignPassengersToDriver(d, earlyOnly) ==
    LET remainingSeats == availableSeats[d]
        scores == sortScores(scorePassengersForDriver(candidates(earlyOnly), d))
        asg == assignLoop(scores, 0, remainingSeats, assignments[d], d)
        taken == SeqToSet(asg) \ SeqToSet(assignments[d])
    IN  IF remainingSeats <= 0 THEN Ledger
        ELSE IF candidates(earlyOnly) = << >> THEN Ledger
        ELSE [ availablePassengers |->
                   SelectSeq(availablePassengers, LAMBDA p : p \notin taken),
               availableSeats |->
                   [availableSeats EXCEPT ![d] = remainingSeats - (Len(asg) - Len(assignments[d]))],
               assignments |-> [assignments EXCEPT ![d] = asg] ]

\* the ledger right after each push of the loop of assignPassengersToDriver
\* that ends with the list asg for driver d: the passenger is pushed and
\* deleted from availablePassengers, availableSeats is written after the loop
assignSteps(d, asg) ==
    [ k \in 1..(Len(asg) - Len(assignments[d])) |->
        LET given == SubSeq(asg, 1, Len(assignments[d]) + k)
        IN  [ pass |-> "scoring",
              driver |-> d,
              passenger |-> given[Len(given)],
              availablePassengers |->
                  SelectSeq(availablePassengers,
                            LAMBDA p : p \notin SeqToSet(given) \ SeqToSet(assignments[d])),
              availableSeats |-> availableSeats,
              assignments |-> [assignments EXCEPT ![d] = given] ] ]

\* bestDriverLoop comparing with <= instead of <
RECURSIVE bestDriverLoopLessOrEqual(_, _, _, _, _)
bestDriverLoopLessOrEqual(ds, passengerId, L, bestDriver, bestDetour) ==
    IF ds = << >> THEN bestDriver
    ELSE LET driver == Head(ds)
             detour == DetourMatcher_calculateTotalDetour(
                           driver, Append(L.assignments[driver], passengerId))
         IN  IF L.availableSeats[driver] <= 0
             THEN bestDriverLoopLessOrEqual(Tail(ds), passengerId, L, bestDriver, bestDetour)
             ELSE IF detour # NaN /\ bestDetour # NaN /\ detour <= bestDetour
             THEN bestDriverLoopLessOrEqual(Tail(ds), passengerId, L, driver, detour)
             ELSE bestDriverLoopLessOrEqual(Tail(ds), passengerId, L, bestDriver, bestDetour)

\* bestDriverLoop passing over a driver with a single remaining seat
RECURSIVE bestDriverLoopSpareSeat(_, _, _, _, _)
bestDriverLoopSpareSeat(ds, passengerId, L, bestDriver, bestDetour) ==
    IF ds = << >> THEN bestDriver
    ELSE LET driver == Head(ds)
             detour == DetourMatcher_calculateTotalDetour(
                           driver, Append(L.assignments[driver], passengerId))
         IN  IF L.availableSeats[driver] <= 1
             THEN bestDriverLoopSpareSeat(Tail(ds), passengerId, L, bestDriver, bestDetour)
             ELSE IF Lt(detour, bestDetour)
             THEN bestDriverLoopSpareSeat(Tail(ds), passengerId, L, driver, detour)
             ELSE bestDriverLoopSpareSeat(Tail(ds), passengerId, L, bestDriver, bestDetour)

\* bestDriverLoop without the test of the driver's remaining seats
RECURSIVE bestDriverLoopAnySeats(_, _, _, _, _)
bestDriverLoopAnySeats(ds, passengerId, L, bestDriver, bestDetour) ==
    IF ds = << >> THEN bestDriver
    ELSE LET driver == Head(ds)
             detour == DetourMatcher_calculateTotalDetour(
                           driver, Append(L.assignments[driver], passengerId))
         IN  IF Lt(detour, bestDetour)
             THEN bestDriverLoopAnySeats(Tail(ds), passengerId, L, driver, detour)
             ELSE bestDriverLoopAnySeats(Tail(ds), passengerId, L, bestDriver, bestDetour)

\* the inner loop of assignRemainingPassengers: the driver with seats and the
\* least detour for passengerId, 0 when there is none
RECURSIVE bestDriverLoop(_, _, _, _, _)
bestDriverLoop(ds, passengerId, L, bestDriver, bestDetour) ==
    IF ds = << >> THEN bestDriver
    ELSE LET driver == Head(ds)
             detour == DetourMatcher_calculateTotalDetour(
                           driver, Append(L.assignments[driver], passengerId))
         IN  IF L.availableSeats[driver] <= 0
             THEN bestDriverLoop(Tail(ds), passengerId, L, bestDriver, bestDetour)
             ELSE IF Lt(detour, bestDetour)
             THEN bestDriverLoop(Tail(ds), passengerId, L, driver, detour)
             ELSE bestDriverLoop(Tail(ds), passengerId, L, bestDriver, bestDetour)

\* sweepAssign without context.availablePassengers.delete
sweepAssignKeepsAvailable(L, bestDriver, passengerId) ==
    IF bestDriver = 0 THEN L
    ELSE [ availablePassengers |-> L.availablePassengers,
           availableSeats |->
               [L.availableSeats EXCEPT ![bestDriver] = L.availableSeats[bestDriver] - 1],
           assignments |->
               [L.assignments EXCEPT ![bestDriver] = Append(L.assignments[bestDriver], passengerId)] ]

\* sweepAssign leaving the seat count as it was
sweepAssignSeatsKept(L, bestDriver, passengerId) ==
    IF bestDriver = 0 THEN L
    ELSE [ availablePassengers |-> Remove(L.availablePassengers, passengerId),
           availableSeats |-> L.availableSeats,
           assignments |->
               [L.assignments EXCEPT ![bestDriver] = Append(L.assignments[bestDriver], passengerId)] ]

\* the assignment that ends one iteration of the sweep
sweepAssign(L, bestDriver, passengerId) ==
    IF bestDriver = 0 THEN L
    ELSE [ availablePassengers |-> Remove(L.availablePassengers, passengerId),
           availableSeats |->
               [L.availableSeats EXCEPT ![bestDriver] = L.availableSeats[bestDriver] - 1],
           assignments |->
               [L.assignments EXCEPT ![bestDriver] = Append(L.assignments[bestDriver], passengerId)] ]

RECURSIVE sweepLoop(_, _, _)
sweepLoop(remainingPassengerIds, ds, L) ==
    IF remainingPassengerIds = << >> THEN L
    ELSE sweepLoop(Tail(remainingPassengerIds), ds,
                   sweepAssign(L,
                               bestDriverLoop(ds, Head(remainingPassengerIds), L, 0, Infinity),
                               Head(remainingPassengerIds)))

\* the ledger right after each assignment of the sweep
RECURSIVE sweepSteps(_, _, _)
sweepSteps(remainingIds, ds, L) ==
    IF remainingIds = << >> THEN << >>
    ELSE LET bestDriver == bestDriverLoop(ds, Head(remainingIds), L, 0, Infinity)
             after == sweepAssign(L, bestDriver, Head(remainingIds))
         IN  ( IF bestDriver = 0 THEN << >>
               ELSE << [ pass |-> "sweep",
                         driver |-> bestDriver,
                         passenger |-> Head(remainingIds),
                         availablePassengers |-> after.availablePassengers,
                         availableSeats |-> after.availableSeats,
                         assignments |-> after.assignments ] >> )
             \o sweepSteps(Tail(remainingIds), ds, after)

\* the passengers the sweep considers: available and not leaving early
remainingPassengerIds ==
    SelectSeq(availablePassengers, LAMBDA p : ~passengers[p].leavingEarly)

\* MatchingEngine.assignRemainingPassengers: the ledger after the call
assignRemainingPassengers(ds) == sweepLoop(remainingPassengerIds, ds, Ledger)

-----------------------------------------------------------------------------
(* Driver order (runMatching) *)

\* number of same-gender-preferring passengers of the driver's gender
matchCount(d) ==
    Cardinality({ i \in SeqToSet(activePassengers) :
                    /\ passengers[i].genderPreference = SAME_GENDER
                    /\ passengers[i].gender = drivers[d].gender })

\* compareDrivers without the tie-break on genders
compareDriversDistanceOnly(a, b) ==
    Sub(driverDirectDistances(b), driverDirectDistances(a))

\* the comparator of the sort of drivers: negative puts a before b
compareDrivers(a, b) ==
    IF driverDirectDistances(b) # driverDirectDistances(a)
    THEN Sub(driverDirectDistances(b), driverDirectDistances(a))
    ELSE matchCount(b) - matchCount(a)

RECURSIVE insertDriver(_, _)
insertDriver(sorted, x) ==
    IF sorted = << >> THEN << x >>
    ELSE IF Lt(compareDrivers(x, Head(sorted)), 0) THEN << x >> \o sorted
    ELSE << Head(sorted) >> \o insertDriver(Tail(sorted), x)

RECURSIVE sortDrivers(_)
sortDrivers(ds) ==
    IF ds = << >> THEN << >>
    ELSE insertDriver(sortDrivers(SubSeq(ds, 1, Len(ds) - 1)), ds[Len(ds)])

sortedDrivers == sortDrivers(activeDrivers)

earlyDrivers == SelectSeq(sortedDrivers, LAMBDA d : drivers[d].leavingEarly)
normalDrivers == SelectSeq(sortedDrivers, LAMBDA d : ~drivers[d].leavingEarly)

\* the calls of assignPassengersToDriver that phase 1 makes, in order
phase1Calls ==
    IF tripDirection = FROM_EVENT
    THEN [i \in 1..Len(earlyDrivers) |-> << earlyDrivers[i], TRUE >>]
         \o [i \in 1..Len(normalDrivers) |-> << normalDrivers[i], FALSE >>]
    ELSE [i \in 1..Len(sortedDrivers) |-> << sortedDrivers[i], FALSE >>]

-----------------------------------------------------------------------------
(* Stop order and timing (buildStopOrder, the timing planner) *)

\* the inner loop of the nearest-neighbour search: the first remaining
\* passenger strictly nearer than every one before it, 0 when none is nearer
\* than Infinity
RECURSIVE nearestLoop(_, _, _, _)
nearestLoop(remaining, currentLocation, nearest, nearestDistance) ==
    IF remaining = << >> THEN nearest
    ELSE IF Lt(distanceMatrix(currentLocation, PId(Head(remaining))), nearestDistance)
         THEN nearestLoop(Tail(remaining), currentLocation, Head(remaining),
                          distanceMatrix(currentLocation, PId(Head(remaining))))
         ELSE nearestLoop(Tail(remaining), currentLocation, nearest, nearestDistance)

\* nearestNeighbor measuring every stop from the place it started at
RECURSIVE nearestNeighborFromStart(_, _, _)
nearestNeighborFromStart(remaining, currentLocation, ordered) ==
    IF remaining = << >> THEN ordered
    ELSE LET nearest == nearestLoop(remaining, currentLocation, 0, Infinity)
         IN  IF nearest # 0
             THEN nearestNeighborFromStart(Remove(remaining, nearest), currentLocation,
                                           Append(ordered, nearest))
             ELSE ordered

\* the greedy nearest-neighbour loop of buildStopOrder
RECURSIVE nearestNeighbor(_, _, _)
nearestNeighbor(remaining, currentLocation, ordered) ==
    IF remaining = << >> THEN ordered
    ELSE LET nearest == nearestLoop(remaining, currentLocation, 0, Infinity)
         IN  IF nearest # 0
             THEN nearestNeighbor(Remove(remaining, nearest), PId(nearest),
                                  Append(ordered, nearest))
             ELSE ordered

routeOrigin(d) == IF isOutbound THEN EventId ELSE DId(d)
routeDestination(d) == IF isOutbound THEN DId(d) ELSE EventId

\* calculatePassengerReadyTime adding the load buffer instead of subtracting it
calculatePassengerReadyTimeLoadAdded(ordered, index) ==
    LET distanceToEvent ==
            routeLegs(PId(ordered[index + 1]),
                      SubSeq(ordered, index + 2, Len(ordered)), EventId)
        remainingPickups == Len(ordered) - index - 1
        loadBuffer == remainingPickups * loadTimeMinutes
    IN  IF eventStartTime = undefined THEN undefined
        ELSE eventStartTime - travelTimeMs(distanceToEvent) + loadBuffer * MsPerMinute

\* MatchingEngine.calculatePassengerReadyTime for ordered[index + 1]
calculatePassengerReadyTime(ordered, index) ==
    LET distanceToEvent ==
            routeLegs(PId(ordered[index + 1]),
                      SubSeq(ordered, index + 2, Len(ordered)), EventId)
        remainingPickups == Len(ordered) - index - 1
        loadBuffer == remainingPickups * loadTimeMinutes
    IN  IF eventStartTime = undefined THEN undefined
        ELSE eventStartTime - travelTimeMs(distanceToEvent) - loadBuffer * MsPerMinute

\* matchedPassenger numbering the stops from 0
matchedPassengerFromZero(ordered, index, d) ==
    LET previousLocation == IF index = 0 THEN routeOrigin(d) ELSE PId(ordered[index])
    IN  [ id |-> ordered[index + 1],
          stopOrder |-> index,
          dropOffOrder |-> IF isOutbound THEN index ELSE undefined,
          pickupOrder |-> IF ~isOutbound THEN index ELSE undefined,
          distanceFromOrigin |->
              routeLegs(routeOrigin(d), SubSeq(ordered, 1, index), PId(ordered[index + 1])),
          detourAdded |-> distanceMatrix(previousLocation, PId(ordered[index + 1])),
          shouldBeReadyBy |->
              IF ~isOutbound THEN calculatePassengerReadyTime(ordered, index) ELSE undefined ]

\* the MatchedPassenger built for ordered[index + 1]
matchedPassenger(ordered, index, d) ==
    LET previousLocation == IF index = 0 THEN routeOrigin(d) ELSE PId(ordered[index])
    IN  [ id |-> ordered[index + 1],
          stopOrder |-> index + 1,
          dropOffOrder |-> IF isOutbound THEN index + 1 ELSE undefined,
          pickupOrder |-> IF ~isOutbound THEN index + 1 ELSE undefined,
          distanceFromOrigin |->
              routeLegs(routeOrigin(d), SubSeq(ordered, 1, index), PId(ordered[index + 1])),
          detourAdded |-> distanceMatrix(previousLocation, PId(ordered[index + 1])),
          shouldBeReadyBy |->
              IF ~isOutbound THEN calculatePassengerReadyTime(ordered, index) ELSE undefined ]

\* MatchingEngine.buildStopOrder
buildStopOrder(assignedIds, d) ==
    LET ordered == nearestNeighbor(assignedIds, routeOrigin(d), << >>)
    IN  [i \in 1..Len(ordered) |-> matchedPassenger(ordered, i - 1, d)]

\* the ids of a list of matched passengers
idsOf(matched) == [i \in 1..Len(matched) |-> matched[i].id]

\* MatchingEngine.calculateTotalRoute
calculateTotalRoute(matched, d) ==
    IF matched = << >> THEN driverDirectDistances(d)
    ELSE routeLegs(routeOrigin(d), idsOf(matched), routeDestination(d))

\* Math.max(0, x)
MathMax0(x) == IF x = NaN THEN NaN ELSE Max(0, x)

\* MatchingEngine.calculateTotalDetour
calculateTotalDetour(matched, d) ==
    MathMax0(Sub(calculateTotalRoute(matched, d), driverDirectDistances(d)))

\* MatchingEngine.calculateDriverDepartureTime
calculateDriverDepartureTime(matched, d) ==
    IF eventStartTime = undefined \/ matched = << >> THEN undefined
    ELSE eventStartTime - travelTimeMs(calculateTotalRoute(matched, d))
                        - Len(matched) * loadTimeMinutes * MsPerMinute
                        - 10 * MsPerMinute

NoSchedule ==
    [ defined |-> FALSE, driverDepartureTime |-> undefined,
      pickupTimes |-> << >>, estimatedArrivalTime |-> undefined ]

\* MatchingEngine.buildInboundSchedule
buildInboundSchedule(matched, d) ==
    IF eventStartTime = undefined THEN NoSchedule
    ELSE IF calculateDriverDepartureTime(matched, d) = undefined THEN NoSchedule
    ELSE [ defined |-> TRUE,
           driverDepartureTime |-> calculateDriverDepartureTime(matched, d),
           pickupTimes |-> [i \in 1..Len(matched) |->
                               [passengerId |-> matched[i].id,
                                time |-> matched[i].shouldBeReadyBy]],
           estimatedArrivalTime |-> eventStartTime - 5 * MsPerMinute ]

-----------------------------------------------------------------------------
(* The result (runMatching phases 3 and 4, match) *)

\* the ride group of one driver
rideGroup(d) ==
    LET assignedIds == assignments[d]
        matchedPassengers ==
            IF Len(assignedIds) > 0 THEN buildStopOrder(assignedIds, d) ELSE << >>
    IN  [ driver |-> d,
          passengers |-> matchedPassengers,
          totalRouteDistance |-> calculateTotalRoute(matchedPassengers, d),
          totalDetour |-> calculateTotalDetour(matchedPassengers, d),
          departureTime |->
              IF tripDirection = TO_EVENT /\ Len(matchedPassengers) > 0
              THEN calculateDriverDepartureTime(matchedPassengers, d)
              ELSE undefined,
          schedule |->
              IF tripDirection = TO_EVENT /\ Len(matchedPassengers) > 0
              THEN buildInboundSchedule(matchedPassengers, d)
              ELSE NoSchedule ]

\* buildRideGroups leaving out the drivers without passengers
buildRideGroupsNonEmpty ==
    LET carrying == SelectSeq(activeDrivers, LAMBDA d : Len(assignments[d]) > 0)
    IN  [i \in 1..Len(carrying) |-> rideGroup(carrying[i])]

\* phase 3: one ride group per driver, in input order
buildRideGroups == [i \in 1..Len(activeDrivers) |-> rideGroup(activeDrivers[i])]

\* phase 3: the drivers without assigned passengers
buildUnmatchedDrivers == SelectSeq(activeDrivers, LAMBDA d : Len(assignments[d]) = 0)

\* determineUnmatchedReason testing the seats before the early departure
determineUnmatchedReasonSeatsFirst(p) ==
    LET ds == SeqToSet(activeDrivers)
        totalSeats == SumSeq([i \in 1..Len(activeDrivers) |-> availableSeats[activeDrivers[i]]])
    IN  IF totalSeats = 0 THEN "no_seats_available"
        ELSE IF /\ tripDirection = FROM_EVENT
                /\ passengers[p].leavingEarly
                /\ { d \in ds : drivers[d].leavingEarly } = {}
        THEN "early_departure_mismatch"
        ELSE IF /\ config.enforceGenderPreference
                /\ passengers[p].genderPreference = SAME_GENDER
                /\ { d \in ds : /\ drivers[d].gender = passengers[p].gender
                                /\ availableSeats[d] > 0 } = {}
        THEN "gender_preference_unmet"
        ELSE "no_available_drivers"

\* MatchingEngine.determineUnmatchedReason
determineUnmatchedReason(p) ==
    LET ds == SeqToSet(activeDrivers)
        totalSeats == SumSeq([i \in 1..Len(activeDrivers) |-> availableSeats[activeDrivers[i]]])
    IN  IF /\ tripDirection = FROM_EVENT
           /\ passengers[p].leavingEarly
           /\ { d \in ds : drivers[d].leavingEarly } = {}
        THEN "early_departure_mismatch"
        ELSE IF totalSeats = 0 THEN "no_seats_available"
        ELSE IF /\ config.enforceGenderPreference
                /\ passengers[p].genderPreference = SAME_GENDER
                /\ { d \in ds : /\ drivers[d].gender = passengers[p].gender
                                /\ availableSeats[d] > 0 } = {}
        THEN "gender_preference_unmet"
        ELSE "no_available_drivers"

\* phase 4: the passengers still available, with the reason
buildUnmatchedPassengers ==
    [i \in 1..Len(availablePassengers) |->
        [ id |-> availablePassengers[i],
          reason |-> determineUnmatchedReason(availablePassengers[i]) ]]

NoResult ==
    [ rideGroups |-> << >>, unmatchedPassengers |-> << >>, unmatchedDrivers |-> << >>,
      metadata |-> [ totalPassengers |-> 0, totalDrivers |-> 0,
                     matchedPassengers |-> 0, matchedDrivers |-> 0 ] ]

\* buildResult counting the inputs before they are filtered
buildResultAllInputs ==
    LET rideGroups == buildRideGroups
    IN  [ rideGroups |-> rideGroups,
          unmatchedPassengers |-> buildUnmatchedPassengers,
          unmatchedDrivers |-> buildUnmatchedDrivers,
          metadata |->
              [ totalPassengers |-> Len(passengers),
                totalDrivers |-> Len(drivers),
                matchedPassengers |->
                    SumSeq([i \in 1..Len(rideGroups) |-> Len(rideGroups[i].passengers)]),
                matchedDrivers |->
                    Len(SelectSeq(rideGroups, LAMBDA g : Len(g.passengers) > 0)) ] ]

\* the MatchingResult that match() returns
buildResult ==
    LET rideGroups == buildRideGroups
    IN  [ rideGroups |-> rideGroups,
          unmatchedPassengers |-> buildUnmatchedPassengers,
          unmatchedDrivers |-> buildUnmatchedDrivers,
          metadata |->
              [ totalPassengers |-> Len(activePassengers),
                totalDrivers |-> Len(activeDrivers),
                matchedPassengers |->
                    SumSeq([i \in 1..Len(rideGroups) |-> Len(rideGroups[i].passengers)]),
                matchedDrivers |->
                    Len(SelectSeq(rideGroups, LAMBDA g : Len(g.passengers) > 0)) ] ]

-----------------------------------------------------------------------------
(* Configurations (DEFAULT_CONFIG, ConfigManager, the merge in match()) *)

WeightFields == { "earlyDeparture", "routeEfficiency", "detour",
                  "genderMatch", "ageMatch", "driverPreference" }

\* DEFAULT_CONFIG.weights, in hundredths
DefaultWeights ==
    [ earlyDeparture |-> 0, routeEfficiency |-> wRouteEfficiency, detour |-> wDetour,
      genderMatch |-> wGenderMatch, ageMatch |-> wAgeMatch,
      driverPreference |-> wDriverPreference ]

\* enum MatcherType
MatcherTypes == { "timing", "early_departure", "capacity", "route_efficiency",
                  "driver_preference", "detour_time", "gender", "age" }

\* DEFAULT_CONFIG.priorityOrder
DefaultOrder == << "timing", "early_departure", "capacity", "route_efficiency",
                   "driver_preference", "detour_time", "gender", "age" >>

DEFAULT_CONFIG ==
    [ id |-> "default", priorityOrder |-> DefaultOrder, maxDetourMiles |-> 20,
      weights |-> DefaultWeights, isDefault |-> TRUE ]

\* Object.values(weights).reduce((a, b) => a + b, 0), in hundredths
RECURSIVE weightSumOver(_, _)
weightSumOver(weights, fields) ==
    IF fields = {} THEN 0
    ELSE LET f == CHOOSE x \in fields : TRUE
         IN  weights[f] + weightSumOver(weights, fields \ {f})

weightSum(weights) == weightSumOver(weights, DOMAIN weights)

\* the object spread { ...a, ...b }
Spread(a, b) ==
    [ k \in DOMAIN a \cup DOMAIN b |-> IF k \in DOMAIN b THEN b[k] ELSE a[k] ]

\* the ConfigManager as a value
Manager == [ configs |-> configs, defaultConfigId |-> defaultConfigId, thrown |-> FALSE ]

Throw(M) == [M EXCEPT !.thrown = TRUE]

\* ConfigManager.getDefaultConfig
getDefaultConfig(M) ==
    IF M.defaultConfigId \in DOMAIN M.configs
    THEN M.configs[M.defaultConfigId] ELSE DEFAULT_CONFIG

\* ConfigManager.getConfig
getConfig(M, configId) ==
    IF configId \in DOMAIN M.configs THEN M.configs[configId] ELSE getDefaultConfig(M)

\* saveConfig accepting any weights
saveConfigUnvalidated(M, c) ==
    LET others == IF c.isDefault
                  THEN [ id \in DOMAIN M.configs |->
                           IF id # c.id /\ M.configs[id].isDefault
                           THEN [M.configs[id] EXCEPT !.isDefault = FALSE]
                           ELSE M.configs[id] ]
                  ELSE M.configs
    IN  [ configs |-> [ id \in DOMAIN others \cup {c.id} |->
                          IF id = c.id THEN c ELSE others[id] ],
          defaultConfigId |-> IF c.isDefault THEN c.id ELSE M.defaultConfigId,
          thrown |-> FALSE ]

\* ConfigManager.saveConfig: the manager after the call
saveConfig(M, c) ==
    IF Abs(weightSum(c.weights) - 100) > 1 THEN Throw(M)
    ELSE LET others == IF c.isDefault
                       THEN [ id \in DOMAIN M.configs |->
                                IF id # c.id /\ M.configs[id].isDefault
                                THEN [M.configs[id] EXCEPT !.isDefault = FALSE]
                                ELSE M.configs[id] ]
                       ELSE M.configs
         IN  [ configs |-> [ id \in DOMAIN others \cup {c.id} |->
                               IF id = c.id THEN c ELSE others[id] ],
               defaultConfigId |-> IF c.isDefault THEN c.id ELSE M.defaultConfigId,
               thrown |-> FALSE ]

\* ConfigManager.deleteConfig
deleteConfig(M, configId) ==
    IF Cardinality(DOMAIN M.configs) <= 1 THEN Throw(M)
    ELSE IF configId = M.defaultConfigId THEN Throw(M)
    ELSE [M EXCEPT !.configs = [ id \in DOMAIN M.configs \ {configId} |-> M.configs[id] ]]

\* ConfigManager.updatePriorityOrder
updatePriorityOrder(M, configId, newOrder) ==
    IF Cardinality(SeqToSet(newOrder)) # Cardinality(MatcherTypes) THEN Throw(M)
    ELSE IF \E t \in MatcherTypes : t \notin SeqToSet(newOrder) THEN Throw(M)
    ELSE saveConfig(M, [getConfig(M, configId) EXCEPT !.priorityOrder = newOrder])

\* ConfigManager.updateThreshold, for maxDetourMiles
updateThreshold(M, configId, value) ==
    IF value < 0 THEN Throw(M)
    ELSE saveConfig(M, [getConfig(M, configId) EXCEPT !.maxDetourMiles = value])

\* match(): effectiveConfig
mergeOverrides(base, configOverrides) ==
    IF DOMAIN configOverrides # {} THEN Spread(base, configOverrides) ELSE base

\* ConfigManager.applyOverrides
applyOverrides(baseConfig, overrides) ==
    [ Spread(baseConfig, overrides) EXCEPT
        !.weights = IF "weights" \in DOMAIN overrides
                    THEN Spread(baseConfig.weights, overrides.weights)
                    ELSE baseConfig.weights,
        !.priorityOrder = IF "priorityOrder" \in DOMAIN overrides
                          THEN overrides.priorityOrder ELSE baseConfig.priorityOrder ]

\* the state of a new ConfigManager, no call made
ConfigConstructed ==
    /\ configs = [ id \in {"default"} |-> DEFAULT_CONFIG ]
    /\ defaultConfigId = "default"
    /\ lastCall = [ op |-> "none" ]
    /\ thrown = FALSE
    /\ effectiveConfig = DEFAULT_CONFIG

-----------------------------------------------------------------------------
(* Inputs of a run *)

\* the test factories' defaults: createPassenger, createDriver
Passenger(pos, needsRide, gender, pref, early, edt) ==
    [ pos |-> pos, needsRide |-> needsRide, gender |-> gender,
      genderPreference |-> pref, age |-> 30,
      leavingEarly |-> early, earlyDepartureTime |-> edt ]

Driver(pos, canDrive, seats, gender, early, edt) ==
    [ pos |-> pos, canDrive |-> canDrive, availableSeats |-> seats,
      gender |-> gender, age |-> 35,
      leavingEarly |-> early, earlyDepartureTime |-> edt ]

DefaultPassenger(pos) == Passenger(pos, TRUE, MALE, ANY, FALSE, undefined)
DefaultDriver(pos, seats) == Driver(pos, TRUE, seats, MALE, FALSE, undefined)

Config(maxDetour, enforce) ==
    [ maxDetourMiles |-> maxDetour, enforceGenderPreference |-> enforce ]

\* 09:00:00Z on the day after the origin of the clock
NineOClock == (24 + 9) * MsPerHour

\* the event is held at the far end of the road
EventPos == MaxPos

Positions == 0..MaxPos
\* a driver's home is not the venue itself (its direct distance is positive)
DriverPositions == Positions \ {EventPos}
\* explicit early departure times, as ranks
DepartureTimes == {undefined, 1, 2}
Genders == {MALE, FEMALE, PREFER_NOT_TO_SAY}

\* the state before match() is called with these arguments
Start(ps, ds, dir, start, cfg) ==
    /\ passengers = ps
    /\ drivers = ds
    /\ eventPos = EventPos
    /\ tripDirection = dir
    /\ eventStartTime = start
    /\ config = cfg
    /\ pc = "start"
    /\ contextBuilt = FALSE
    /\ availablePassengers = << >>
    /\ availableSeats = << >>
    /\ assignments = << >>
    /\ queue = << >>
    /\ processed = << >>
    /\ swept = << >>
    /\ result = NoResult
    /\ steps = << >>
    /\ previous = << >>
    /\ resultsStore = << >>
    /\ ConfigConstructed

\* a direction, the event start time it is given, and a detour limit
Trips == { << FROM_EVENT, undefined, 15 >>,
           << TO_EVENT, NineOClock, 4 >>,
           << TO_EVENT, NineOClock, 15 >> }

\* three passengers anywhere on the road, one driver with room for all
GeometryInit ==
    \E a \in Positions, b \in Positions, c \in Positions,
       h \in DriverPositions, t \in Trips :
        Start(<< DefaultPassenger(a), DefaultPassenger(b), DefaultPassenger(c) >>,
              << DefaultDriver(h, MaxSeats) >>,
              t[1], t[2], Config(t[3], FALSE))

\* two passengers and a driver anywhere on the road, a second driver at one
\* of two places
TwoDriverInit ==
    \E a \in Positions, b \in Positions,
       h1 \in DriverPositions, h2 \in {1, 4},
       n \in 1..2, dir \in {FROM_EVENT, TO_EVENT} :
        Start(<< DefaultPassenger(a), DefaultPassenger(b) >>,
              << DefaultDriver(h1, n), DefaultDriver(h2, 1) >>,
              dir, NineOClock, Config(12, FALSE))

\* leaving early or not, with or without an explicit time
Departures == { << FALSE, undefined >> } \cup ({TRUE} \X DepartureTimes)

\* three passengers and two drivers that leave early or not, outbound
EarlyInit ==
    \E a \in Departures, b \in Departures, c \in BOOLEAN,
       x \in Departures, y \in Departures, n1 \in 1..2, n2 \in 1..2 :
        Start(<< Passenger(1, TRUE, MALE, ANY, a[1], a[2]),
                 Passenger(2, TRUE, MALE, ANY, b[1], b[2]),
                 Passenger(3, TRUE, MALE, ANY, c, undefined) >>,
              << Driver(0, TRUE, n1, MALE, x[1], x[2]),
                 Driver(2, TRUE, n2, MALE, y[1], y[2]) >>,
              FROM_EVENT, undefined, Config(12, FALSE))

\* genders and gender preferences, two drivers equally far from the event
GenderInit ==
    \E g1 \in Genders, g2 \in Genders, g3 \in Genders, g4 \in Genders,
       q1 \in {ANY, SAME_GENDER}, q2 \in {ANY, SAME_GENDER},
       n \in 1..2, dir \in {FROM_EVENT, TO_EVENT}, e \in BOOLEAN :
        Start(<< Passenger(1, TRUE, g1, q1, FALSE, undefined),
                 Passenger(3, TRUE, g2, q2, FALSE, undefined) >>,
              << Driver(2, TRUE, n, g3, FALSE, undefined),
                 Driver(2, TRUE, n, g4, FALSE, undefined) >>,
              dir, NineOClock, Config(12, e))

\* outbound with enforced gender preference: a woman who prefers a woman
\* driver, two men among the passengers, one of whom may leave early, and two
\* men driving
SweepInit ==
    \E a \in Positions, b \in {2, 5}, h1 \in DriverPositions, h2 \in {1, 4},
       n1 \in 1..2, n2 \in 1..2, l \in BOOLEAN :
        Start(<< Passenger(a, TRUE, FEMALE, SAME_GENDER, FALSE, undefined),
                 Passenger(b, TRUE, MALE, ANY, FALSE, undefined),
                 Passenger(3, TRUE, MALE, ANY, l, undefined) >>,
              << Driver(h1, TRUE, n1, MALE, FALSE, undefined),
                 Driver(h2, TRUE, n2, MALE, FALSE, undefined) >>,
              FROM_EVENT, undefined, Config(12, TRUE))

\* people who do not take part or have no coordinates, and a missing start time
FilterInit ==
    \E a \in {NoCoord, 1}, b \in {NoCoord, 3}, r1 \in BOOLEAN, r2 \in BOOLEAN,
       h1 \in {NoCoord, 0}, h2 \in {NoCoord, 2}, c1 \in BOOLEAN, n2 \in 0..1,
       l \in BOOLEAN,
       dir \in {FROM_EVENT, TO_EVENT}, start \in {undefined, NineOClock} :
        Start(<< Passenger(a, r1, MALE, ANY, FALSE, undefined),
                 Passenger(b, r2, MALE, ANY, l, undefined) >>,
              << Driver(h1, c1, 1, MALE, FALSE, undefined),
                 Driver(h2, TRUE, n2, MALE, l, undefined) >>,
              dir, start, Config(12, FALSE))

\* inbound, the event at 05:10, 00:10 or 12:05 UTC: two passengers, one
\* anywhere on the road, and a driver with room for both
HourInit ==
    \E a \in Positions, b \in {0, 3}, h \in {0, 4},
       start \in { (24 + 5) * MsPerHour + 10 * MsPerMinute,
                   24 * MsPerHour + 10 * MsPerMinute,
                   (24 + 12) * MsPerHour + 5 * MsPerMinute } :
        Start(<< DefaultPassenger(a), DefaultPassenger(b) >>,
              << DefaultDriver(h, 2) >>,
              TO_EVENT, start, Config(15, FALSE))

-----------------------------------------------------------------------------
(* The run of match() *)

Init ==
    \/ GeometryInit
    \/ TwoDriverInit
    \/ EarlyInit
    \/ GenderInit
    \/ SweepInit
    \/ FilterInit
    \/ HourInit

\* where runMatching goes when the calls in q are still to make
nextPc(q) ==
    IF q # << >> THEN "phase1"
    ELSE IF tripDirection = FROM_EVENT THEN "sweep"
    ELSE "build"

\* the validation without the test of the direction
validationFailsAnyDirection == eventStartTime = undefined

\* match() requires eventStartTime for an inbound trip
validationFails == tripDirection = TO_EVENT /\ eventStartTime = undefined

\* match() throws 'eventStartTime is required for inbound (TO_EVENT) trips'
ValidationError ==
    /\ pc = "start"
    /\ validationFails
    /\ pc' = "error"
    /\ UNCHANGED << inputs, contextBuilt, availablePassengers, availableSeats,
                    assignments, queue, processed, swept, result, steps >>
    /\ UNCHANGED << configVars, previous, resultsStore >>

\* match() filters the inputs and builds the context; runMatching sorts the drivers
BuildContext ==
    /\ pc = "start"
    /\ ~validationFails
    /\ contextBuilt' = TRUE
    /\ availablePassengers' = activePassengers
    /\ availableSeats' = [d \in SeqToSet(activeDrivers) |-> drivers[d].availableSeats]
    /\ assignments' = [d \in SeqToSet(activeDrivers) |-> << >>]
    /\ queue' = phase1Calls
    /\ pc' = nextPc(phase1Calls)
    /\ UNCHANGED << inputs, processed, swept, result, steps >>
    /\ UNCHANGED << configVars, previous, resultsStore >>

\* phase 1: the next call of assignPassengersToDriver
AssignPassengers ==
    /\ pc = "phase1"
    /\ LET call == Head(queue)
           L == assignPassengersToDriver(call[1], call[2])
       IN  /\ availablePassengers' = L.availablePassengers
           /\ availableSeats' = L.availableSeats
           /\ assignments' = L.assignments
           /\ processed' = Append(processed, call)
           /\ steps' = assignSteps(call[1], L.assignments[call[1]])
    /\ queue' = Tail(queue)
    /\ pc' = nextPc(Tail(queue))
    /\ UNCHANGED << inputs, contextBuilt, swept, result >>
    /\ UNCHANGED << configVars, previous, resultsStore >>

\* phase 2 (outbound only): the sweep pass over the normal drivers
SweepPass ==
    /\ pc = "sweep"
    /\ LET L == assignRemainingPassengers(normalDrivers)
       IN  /\ availablePassengers' = L.availablePassengers
           /\ availableSeats' = L.availableSeats
           /\ assignments' = L.assignments
           /\ swept' = SelectSeq(availablePassengers,
                                 LAMBDA p : p \notin SeqToSet(L.availablePassengers))
           /\ steps' = sweepSteps(remainingPassengerIds, normalDrivers, Ledger)
    /\ pc' = "build"
    /\ UNCHANGED << inputs, contextBuilt, queue, processed, result >>
    /\ UNCHANGED << configVars, previous, resultsStore >>

\* phases 3 and 4, and the return of match()
ReturnResult ==
    /\ pc = "build"
    /\ result' = buildResult
    /\ pc' = "done"
    /\ UNCHANGED << inputs, contextBuilt, availablePassengers, availableSeats,
                    assignments, queue, processed, swept, steps >>
    /\ UNCHANGED << configVars, previous, resultsStore >>

\* match() is called a second time on the same engine with the same
\* passengers, drivers, event, direction and config; the caller keeps the
\* outcome of the first call, the context of the first call is gone
MatchAgain ==
    /\ pc \in {"done", "error"}
    /\ previous = << >>
    /\ previous' = << [ pc |-> pc, result |-> result ] >>
    /\ pc' = "start"
    /\ contextBuilt' = FALSE
    /\ availablePassengers' = << >>
    /\ availableSeats' = << >>
    /\ assignments' = << >>
    /\ queue' = << >>
    /\ processed' = << >>
    /\ swept' = << >>
    /\ steps' = << >>
    /\ result' = NoResult
    /\ UNCHANGED << inputs, configVars, resultsStore >>

Next ==
    \/ ValidationError
    \/ BuildContext
    \/ AssignPassengers
    \/ SweepPass
    \/ ReturnResult
    \/ MatchAgain

Spec == Init /\ [][Next]_vars

-----------------------------------------------------------------------------
(* Calls on the ConfigManager, and match() with configOverrides *)

ConfigIds == { "default", "custom" }

\* DEFAULT_CONFIG.priorityOrder reversed
ReverseOrder == [ i \in 1..Len(DefaultOrder) |-> DefaultOrder[Len(DefaultOrder) + 1 - i] ]

\* the orders given to updatePriorityOrder: a permutation and an order that
\* lacks a type
Orders == { ReverseOrder, SubSeq(DefaultOrder, 1, Len(DefaultOrder) - 1) }

\* the configOverrides given to match(): none, a threshold, an order, some of
\* the weights, all of the weights
OverrideChoices ==
    { << >>,
      [ maxDetourMiles |-> 10 ],
      [ priorityOrder |-> ReverseOrder ],
      [ weights |-> [ detour |-> 30 ] ],
      [ weights |-> [DefaultWeights EXCEPT !.routeEfficiency = 45, !.detour = 20] ] }

\* a new engine and a new ConfigManager
ConfigInit ==
    Start(<< >>, << >>, FROM_EVENT, undefined, Config(20, FALSE))

\* the call leaves the manager as M
ManagerBecomes(M) ==
    /\ configs' = M.configs
    /\ defaultConfigId' = M.defaultConfigId
    /\ thrown' = M.thrown

SaveConfig ==
    \E id \in ConfigIds, r \in {40, 45}, def \in BOOLEAN :
        LET c == [ id |-> id, priorityOrder |-> DefaultOrder, maxDetourMiles |-> 20,
                   weights |-> [DefaultWeights EXCEPT !.routeEfficiency = r],
                   isDefault |-> def ]
        IN  /\ ManagerBecomes(saveConfig(Manager, c))
            /\ lastCall' = [ op |-> "saveConfig", config |-> c ]
            /\ UNCHANGED << effectiveConfig, matchVars, previous, resultsStore >>

DeleteConfig ==
    \E id \in ConfigIds :
        /\ ManagerBecomes(deleteConfig(Manager, id))
        /\ lastCall' = [ op |-> "deleteConfig", configId |-> id ]
        /\ UNCHANGED << effectiveConfig, matchVars, previous, resultsStore >>

UpdatePriorityOrder ==
    \E id \in ConfigIds, newOrder \in Orders :
        /\ ManagerBecomes(updatePriorityOrder(Manager, id, newOrder))
        /\ lastCall' = [ op |-> "updatePriorityOrder", configId |-> id, newOrder |-> newOrder ]
        /\ UNCHANGED << effectiveConfig, matchVars, previous, resultsStore >>

UpdateThreshold ==
    \E id \in ConfigIds, value \in {-5, 10} :
        /\ ManagerBecomes(updateThreshold(Manager, id, value))
        /\ lastCall' = [ op |-> "updateThreshold", configId |-> id, value |-> value ]
        /\ UNCHANGED << effectiveConfig, matchVars, previous, resultsStore >>

\* match() on an engine constructed with a stored configuration: the merge of
\* configOverrides into this.config
MatchWithOverrides ==
    \E id \in ConfigIds, configOverrides \in OverrideChoices :
        LET base == getConfig(Manager, id)
        IN  /\ effectiveConfig' = mergeOverrides(base, configOverrides)
            /\ lastCall' = [ op |-> "match", base |-> base, configOverrides |-> configOverrides ]
            /\ thrown' = FALSE
            /\ UNCHANGED << configs, defaultConfigId, matchVars, previous, resultsStore >>

\* POST /match: the stored configuration with the request's overrides applied
\* is the configOverrides of match() on the engine made with DEFAULT_CONFIG
RouteMatch ==
    \E id \in ConfigIds, configOverrides \in OverrideChoices :
        LET stored == getConfig(Manager, id)
            requested == IF DOMAIN configOverrides # {}
                         THEN applyOverrides(stored, configOverrides) ELSE stored
        IN  /\ effectiveConfig' = mergeOverrides(DEFAULT_CONFIG, requested)
            /\ lastCall' = [ op |-> "route", base |-> stored,
                             configOverrides |-> configOverrides ]
            /\ thrown' = FALSE
            /\ UNCHANGED << configs, defaultConfigId, matchVars, previous, resultsStore >>

ConfigNext ==
    \/ SaveConfig
    \/ DeleteConfig
    \/ UpdatePriorityOrder
    \/ UpdateThreshold
    \/ MatchWithOverrides
    \/ RouteMatch

ConfigSpec == ConfigInit /\ [][ConfigNext]_vars

-----------------------------------------------------------------------------
(* Manual overrides of a stored result (routes: POST /match/:resultId/override) *)

\* renumberStopOrders
renumberStopOrders(ps) == [ i \in 1..Len(ps) |-> [ps[i] EXCEPT !.stopOrder = i] ]

\* rideGroups.find(g => g.id === groupId): the index of the group, 0 when none
findGroup(R, groupId) ==
    IF \E g \in 1..Len(R.rideGroups) : R.rideGroups[g].id = groupId
    THEN CHOOSE g \in 1..Len(R.rideGroups) :
            /\ R.rideGroups[g].id = groupId
            /\ \A h \in 1..(g - 1) : R.rideGroups[h].id # groupId
    ELSE 0

\* passengers.findIndex(p => p.id === passengerId), counted from 1, 0 when none
findIndex(ps, passengerId) ==
    IF \E i \in 1..Len(ps) : ps[i].id = passengerId
    THEN CHOOSE i \in 1..Len(ps) :
            /\ ps[i].id = passengerId
            /\ \A j \in 1..(i - 1) : ps[j].id # passengerId
    ELSE 0

\* ps.splice(i, 1)
splice(ps, i) == SubSeq(ps, 1, i - 1) \o SubSeq(ps, i + 1, Len(ps))

\* The objects applyOverrides works on: updatedResult = { ...result } is a new
\* object whose rideGroups and unmatchedPassengers are the arrays of the
\* result it was given, so X.R is at once the given result and the updated
\* one; X.threw tells that an Error was thrown.

\* applyOverrides: changes.movePassenger
movePassenger(X, c) ==
    LET R == X.R
        from == findGroup(R, c.fromGroupId)
        to == findGroup(R, c.toGroupId)
        passengerIndex == findIndex(R.rideGroups[from].passengers, c.passengerId)
        passenger == R.rideGroups[from].passengers[passengerIndex]
        taken == [R.rideGroups EXCEPT
                    ![from].passengers = splice(R.rideGroups[from].passengers, passengerIndex),
                    ![from].isManuallyOverridden = TRUE]
        pushed == [taken EXCEPT
                    ![to].passengers = Append(taken[to].passengers, passenger),
                    ![to].isManuallyOverridden = TRUE]
        renumbered == [pushed EXCEPT
                    ![from].passengers = renumberStopOrders(pushed[from].passengers)]
    IN  IF from = 0 \/ to = 0 THEN [X EXCEPT !.threw = TRUE]
        ELSE IF passengerIndex = 0 THEN [X EXCEPT !.threw = TRUE]
        ELSE [X EXCEPT !.R.rideGroups =
                [renumbered EXCEPT
                    ![to].passengers = renumberStopOrders(renumbered[to].passengers)]]

\* applyOverrides: changes.removePassenger
removePassenger(X, c) ==
    LET R == X.R
        group == findGroup(R, c.groupId)
        passengerIndex == findIndex(R.rideGroups[group].passengers, c.passengerId)
        passenger == R.rideGroups[group].passengers[passengerIndex]
    IN  IF group = 0 THEN [X EXCEPT !.threw = TRUE]
        ELSE IF passengerIndex = 0 THEN [X EXCEPT !.threw = TRUE]
        ELSE [X EXCEPT
                !.R.rideGroups =
                    [R.rideGroups EXCEPT
                        ![group].passengers =
                            renumberStopOrders(splice(R.rideGroups[group].passengers,
                                                      passengerIndex)),
                        ![group].isManuallyOverridden = TRUE],
                !.R.unmatchedPassengers =
                    IF c.markAsUnmatched
                    THEN Append(R.unmatchedPassengers,
                                [id |-> passenger.id, reason |-> "manual_removal"])
                    ELSE R.unmatchedPassengers]

\* applyOverrides: changes.swapPassengers
swapPassengers(X, c) ==
    LET R == X.R
        group1 == findGroup(R, c.group1Id)
        group2 == findGroup(R, c.group2Id)
        p1Index == findIndex(R.rideGroups[group1].passengers, c.passenger1Id)
        p2Index == findIndex(R.rideGroups[group2].passengers, c.passenger2Id)
        temp == R.rideGroups[group1].passengers[p1Index]
        first == [R.rideGroups EXCEPT
                    ![group1].passengers[p1Index] = R.rideGroups[group2].passengers[p2Index]]
        second == [first EXCEPT ![group2].passengers[p2Index] = temp]
        flagged == [second EXCEPT ![group1].isManuallyOverridden = TRUE,
                                  ![group2].isManuallyOverridden = TRUE]
        renumbered == [flagged EXCEPT
                    ![group1].passengers = renumberStopOrders(flagged[group1].passengers)]
    IN  IF group1 = 0 \/ group2 = 0 THEN [X EXCEPT !.threw = TRUE]
        ELSE IF p1Index = 0 \/ p2Index = 0 THEN [X EXCEPT !.threw = TRUE]
        ELSE [X EXCEPT !.R.rideGroups =
                [renumbered EXCEPT
                    ![group2].passengers = renumberStopOrders(renumbered[group2].passengers)]]

\* one of the three changes, if the request has it and nothing was thrown yet
applyChange(X, changes, kind) ==
    IF X.threw \/ kind \notin DOMAIN changes THEN X
    ELSE IF kind = "movePassenger" THEN movePassenger(X, changes[kind])
    ELSE IF kind = "removePassenger" THEN removePassenger(X, changes[kind])
    ELSE swapPassengers(X, changes[kind])

\* applyOverrides(result, overrideRequest)
applyResultOverrides(stored, changes) ==
    applyChange(applyChange(applyChange([ R |-> stored, threw |-> FALSE ],
                                        changes, "movePassenger"),
                            changes, "removePassenger"),
                changes, "swapPassengers")

\* results of match(): three passengers in the cars of two drivers
StoredResults ==
    { [ rideGroups |->
          << [ id |-> "g1", isManuallyOverridden |-> FALSE,
               passengers |-> renumberStopOrders([ i \in 1..k |-> [id |-> i, stopOrder |-> i] ]) ],
             [ id |-> "g2", isManuallyOverridden |-> FALSE,
               passengers |-> renumberStopOrders([ i \in 1..(3 - k) |->
                                                     [id |-> k + i, stopOrder |-> i] ]) ] >>,
        unmatchedPassengers |-> << >> ] : k \in 1..2 }

\* the changes of the override requests: one change, or a move followed by a
\* removal or a removal followed by a swap; "gX" names no group
OverrideChanges ==
    LET moves == { [ passengerId |-> q, fromGroupId |-> "g1", toGroupId |-> t ] :
                     q \in {1, 3}, t \in {"g2", "gX"} }
        removals == { [ passengerId |-> 2, groupId |-> g, markAsUnmatched |-> TRUE ] :
                        g \in {"g1", "gX"} }
        swaps == { [ passenger1Id |-> 1, group1Id |-> "g1",
                     passenger2Id |-> 3, group2Id |-> "g2" ] }
    IN  { [ k \in {"movePassenger"} |-> m ] : m \in moves }
        \cup { [ k \in {"removePassenger"} |-> r ] : r \in removals }
        \cup { [ k \in {"swapPassengers"} |-> w ] : w \in swaps }
        \cup { [ movePassenger |-> m, removePassenger |-> r ] : m \in moves, r \in removals }
        \cup { [ removePassenger |-> r, swapPassengers |-> w ] : r \in removals, w \in swaps }

\* a new engine, a new ConfigManager and an empty resultsStore
OverrideInit ==
    Start(<< >>, << >>, FROM_EVENT, undefined, Config(20, FALSE))

\* POST /match stores the result of match() under its id
StoreResult ==
    /\ resultsStore = << >>
    /\ \E r \in StoredResults : resultsStore' = [ id \in {"r1"} |-> r ]
    /\ lastCall' = [ op |-> "store" ]
    /\ thrown' = FALSE
    /\ UNCHANGED << configs, defaultConfigId, effectiveConfig, matchVars, previous >>

\* POST /match/:resultId/override for the stored result: applyOverrides works
\* on the stored object; when it returns the handler stores what it returned,
\* when it throws the handler answers with the error
Override ==
    /\ "r1" \in DOMAIN resultsStore
    /\ \E changes \in OverrideChanges :
          LET X == applyResultOverrides(resultsStore["r1"], changes)
          IN  /\ resultsStore' = [resultsStore EXCEPT !["r1"] = X.R]
              /\ thrown' = X.threw
              /\ lastCall' = [ op |-> "override", changes |-> changes,
                               before |-> resultsStore["r1"] ]
    /\ UNCHANGED << configs, defaultConfigId, effectiveConfig, matchVars, previous >>

OverrideNext ==
    \/ StoreResult
    \/ Override

OverrideSpec == OverrideInit /\ [][OverrideNext]_vars

-----------------------------------------------------------------------------
(* Properties of the result *)

Done == pc = "done"

\* the positions (group, stop) of the result that hold passenger p
placements(p) ==
    UNION { { << g, i >> : i \in { k \in 1..Len(result.rideGroups[g].passengers) :
                                     result.rideGroups[g].passengers[k].id = p } } :
            g \in 1..Len(result.rideGroups) }

\* the entries of unmatchedPassengers that hold passenger p
unmatchedEntries(p) ==
    { i \in 1..Len(result.unmatchedPassengers) : result.unmatchedPassengers[i].id = p }

\* the passengers of the input that need a ride
NeedsRide == { p \in 1..Len(passengers) : passengers[p].needsRide }

\* C1 (conservation): once match() has returned, every input passenger with
\* needsRide = true occurs exactly once in the result, as a stop of one ride
\* group or as one entry of unmatchedPassengers.
C1_Conservation ==
    Done => \A p \in NeedsRide :
                Cardinality(placements(p)) + Cardinality(unmatchedEntries(p)) = 1

\* a returned outbound run in which the sweep pass placed a passenger, another
\* passenger was placed by the scoring pass and a third is unmatched
C1_Witness ==
    /\ Done
    /\ tripDirection = FROM_EVENT
    /\ swept # << >>
    /\ \E p \in NeedsRide : p \notin SeqToSet(swept) /\ placements(p) # {}
    /\ result.unmatchedPassengers # << >>

\* C2 (capacity): no driver is ever assigned more passengers than its
\* availableSeats, neither by the scoring pass nor by the sweep pass, and no
\* ride group of the result holds more passengers than its driver's seats.
C2_Capacity ==
    /\ contextBuilt =>
          \A d \in DOMAIN assignments : Len(assignments[d]) <= drivers[d].availableSeats
    /\ Done =>
          \A g \in 1..Len(result.rideGroups) :
              Len(result.rideGroups[g].passengers)
                  <= drivers[result.rideGroups[g].driver].availableSeats

\* the sweep pass has filled a driver that the scoring pass had given a
\* passenger, and a passenger is left over
C2_Witness ==
    /\ Done
    /\ \E g \in 1..Len(result.rideGroups) :
          LET G == result.rideGroups[g]
          IN  /\ Len(G.passengers) = drivers[G.driver].availableSeats
              /\ \E i, j \in 1..Len(G.passengers) :
                    /\ G.passengers[i].id \in SeqToSet(swept)
                    /\ G.passengers[j].id \notin SeqToSet(swept)
    /\ result.unmatchedPassengers # << >>

\* C3 (outbound timing): in the result of a FROM_EVENT run every passenger of
\* a ride group has the leavingEarly flag of the group's driver, and the sweep
\* pass places no early-leaving passenger.
C3_OutboundTiming ==
    /\ (Done /\ tripDirection = FROM_EVENT) =>
          \A g \in 1..Len(result.rideGroups) :
              \A i \in 1..Len(result.rideGroups[g].passengers) :
                  passengers[result.rideGroups[g].passengers[i].id].leavingEarly
                      = drivers[result.rideGroups[g].driver].leavingEarly
    /\ \A p \in SeqToSet(swept) : ~passengers[p].leavingEarly

\* an outbound result with an early group, a normal group and an early
\* passenger that no driver took
C3_Witness ==
    /\ Done
    /\ tripDirection = FROM_EVENT
    /\ \E g, h \in 1..Len(result.rideGroups) :
          /\ drivers[result.rideGroups[g].driver].leavingEarly
          /\ result.rideGroups[g].passengers # << >>
          /\ ~drivers[result.rideGroups[h].driver].leavingEarly
          /\ result.rideGroups[h].passengers # << >>
    /\ \E i \in 1..Len(result.unmatchedPassengers) :
          passengers[result.unmatchedPassengers[i].id].leavingEarly

\* the gender match test: passes when either party is prefer_not_to_say or
\* the two genders are equal
genderTestPasses(p, d) ==
    \/ passengers[p].gender = PREFER_NOT_TO_SAY
    \/ drivers[d].gender = PREFER_NOT_TO_SAY
    \/ passengers[p].gender = drivers[d].gender

\* C4 (gender preference as a hard constraint): with enforceGenderPreference
\* no ride group holds a passenger preferring same_gender whose driver fails
\* the gender match test.
C4_GenderHard ==
    (Done /\ config.enforceGenderPreference) =>
        \A g \in 1..Len(result.rideGroups) :
            \A i \in 1..Len(result.rideGroups[g].passengers) :
                LET p == result.rideGroups[g].passengers[i].id
                IN  passengers[p].genderPreference = SAME_GENDER
                        => genderTestPasses(p, result.rideGroups[g].driver)

\* C5 (inbound detour bound): in the result of a TO_EVENT run every ride
\* group's totalDetour is at most maxDetourMiles.
C5_InboundDetour ==
    (Done /\ tripDirection = TO_EVENT) =>
        \A g \in 1..Len(result.rideGroups) :
            ~Gt(result.rideGroups[g].totalDetour, config.maxDetourMiles)

\* C6 (outbound completeness) as stated: at the end of a FROM_EVENT run no
\* passenger with leavingEarly = false is unmatched while a driver with
\* leavingEarly = false has a remaining seat.
C6_OutboundCompleteness ==
    (Done /\ tripDirection = FROM_EVENT) =>
        ~ \E i \in 1..Len(result.unmatchedPassengers), d \in DOMAIN availableSeats :
              /\ ~passengers[result.unmatchedPassengers[i].id].leavingEarly
              /\ ~drivers[d].leavingEarly
              /\ availableSeats[d] > 0

\* C6 as amended: the same, for passengers and drivers that have home
\* coordinates.
C6_OutboundCompletenessWithCoordinates ==
    (Done /\ tripDirection = FROM_EVENT) =>
        ~ \E i \in 1..Len(result.unmatchedPassengers), d \in DOMAIN availableSeats :
              /\ ~passengers[result.unmatchedPassengers[i].id].leavingEarly
              /\ passengers[result.unmatchedPassengers[i].id].pos # NoCoord
              /\ ~drivers[d].leavingEarly
              /\ drivers[d].pos # NoCoord
              /\ availableSeats[d] > 0

\* the sweep pass placed a passenger that the scoring pass had left over, a
\* normal driver still has a seat, and nobody who is not leaving early is
\* unmatched
C6_Witness ==
    /\ Done
    /\ tripDirection = FROM_EVENT
    /\ swept # << >>
    /\ \E d \in DOMAIN availableSeats : ~drivers[d].leavingEarly /\ availableSeats[d] > 0
    /\ \A i \in 1..Len(result.unmatchedPassengers) :
          passengers[result.unmatchedPassengers[i].id].leavingEarly

\* C7 (validation): match() fails exactly for TO_EVENT without eventStartTime,
\* and then no context is built, the ledger is untouched and there is no
\* result; FROM_EVENT without eventStartTime is accepted.
C7_Validation ==
    /\ pc = "error" =>
          /\ tripDirection = TO_EVENT
          /\ eventStartTime = undefined
          /\ ~contextBuilt
          /\ availablePassengers = << >>
          /\ availableSeats = << >>
          /\ assignments = << >>
          /\ result = NoResult
    /\ (tripDirection = TO_EVENT /\ eventStartTime = undefined) =>
          /\ pc \in {"start", "error"}
          /\ ~contextBuilt

\* the call has failed although there were passengers and drivers to match
C7_Witness ==
    /\ pc = "error"
    /\ activePassengers # << >>
    /\ activeDrivers # << >>

\* C8 (inbound schedule bounds): in the result of a TO_EVENT run a ride group
\* with passengers has a schedule with one pickup entry per passenger, its
\* estimatedArrivalTime is at most eventStartTime, its driverDepartureTime is
\* before eventStartTime and every shouldBeReadyBy is at most eventStartTime;
\* a ride group without passengers has no schedule.
C8_InboundSchedule ==
    (Done /\ tripDirection = TO_EVENT) =>
        \A g \in 1..Len(result.rideGroups) :
            LET G == result.rideGroups[g]
            IN  IF G.passengers = << >>
                THEN ~G.schedule.defined
                ELSE /\ G.schedule.defined
                     /\ Len(G.schedule.pickupTimes) = Len(G.passengers)
                     /\ \A i \in 1..Len(G.passengers) :
                           /\ G.schedule.pickupTimes[i].passengerId = G.passengers[i].id
                           /\ G.schedule.pickupTimes[i].time = G.passengers[i].shouldBeReadyBy
                           /\ G.passengers[i].shouldBeReadyBy # undefined
                           /\ G.passengers[i].shouldBeReadyBy <= eventStartTime
                     /\ G.schedule.estimatedArrivalTime <= eventStartTime
                     /\ G.schedule.driverDepartureTime < eventStartTime

\* an inbound result with a group of two stops and a group of none
C8_Witness ==
    /\ Done
    /\ tripDirection = TO_EVENT
    /\ \E g \in 1..Len(result.rideGroups) : Len(result.rideGroups[g].passengers) >= 2
    /\ \E g \in 1..Len(result.rideGroups) : result.rideGroups[g].passengers = << >>

\* C9 (stop ordering): the stopOrder values of a ride group read 1, 2, ..., N
\* in list order; outbound, dropOffOrder equals stopOrder and pickupOrder is
\* absent; inbound, pickupOrder equals stopOrder and dropOffOrder is absent.
C9_StopOrdering ==
    Done =>
        \A g \in 1..Len(result.rideGroups) :
            \A i \in 1..Len(result.rideGroups[g].passengers) :
                LET P == result.rideGroups[g].passengers[i]
                IN  /\ P.stopOrder = i
                    /\ tripDirection = FROM_EVENT =>
                          P.dropOffOrder = P.stopOrder /\ P.pickupOrder = undefined
                    /\ tripDirection = TO_EVENT =>
                          P.pickupOrder = P.stopOrder /\ P.dropOffOrder = undefined

\* a group of three whose stop order differs from the order of assignment
C9_Witness ==
    /\ Done
    /\ \E g \in 1..Len(result.rideGroups) :
          /\ Len(result.rideGroups[g].passengers) = 3
          /\ idsOf(result.rideGroups[g].passengers) # assignments[result.rideGroups[g].driver]

\* the same-gender-preferring passengers of the run that have driver d's gender
sameGenderCount(d) ==
    Cardinality({ p \in NeedsRide :
                    /\ passengers[p].genderPreference = SAME_GENDER
                    /\ passengers[p].gender = drivers[d].gender })

\* the calls i < j of phase 1 belong to one phase
samePhase(i, j) == processed[i][2] = processed[j][2]

\* C10 (driver processing order): within a phase no driver is offered
\* passengers before a driver with a strictly greater direct distance, and of
\* two drivers with equal direct distance the one matching fewer
\* same-gender-preferring passengers does not go first; when phase 1 is over
\* every usable driver has been offered passengers exactly once.
C10_DriverOrder ==
    /\ \A i, j \in 1..Len(processed) :
          (i < j /\ samePhase(i, j)) =>
              LET a == processed[i][1]
                  b == processed[j][1]
              IN  /\ driverDirectDistances(a) >= driverDirectDistances(b)
                  /\ driverDirectDistances(a) = driverDirectDistances(b)
                        => sameGenderCount(a) >= sameGenderCount(b)
    /\ pc \in {"sweep", "build", "done"} =>
          /\ Len(processed) = Len(activeDrivers)
          /\ { processed[i][1] : i \in 1..Len(processed) } = SeqToSet(activeDrivers)

\* the second driver of the input was offered passengers before the first,
\* because it lives strictly farther from the event
C10_Witness ==
    /\ Len(processed) = 2
    /\ samePhase(1, 2)
    /\ processed[1][1] = 2
    /\ processed[2][1] = 1
    /\ driverDirectDistances(2) > driverDirectDistances(1)

\* the passengers driver d carried just before the sweep placed swept[k]
assignmentsBeforeSweep(k, d) ==
    SelectSeq(assignments[d],
              LAMBDA p : p \notin { swept[j] : j \in k..Len(swept) })

\* the seats driver d had left just before the sweep placed swept[k]
seatsBeforeSweep(k, d) ==
    drivers[d].availableSeats - Len(assignmentsBeforeSweep(k, d))

\* by how much the route of driver d grows when swept[k] is appended to the
\* passengers d carried at that moment
additionalDetour(k, d) ==
    Sub(calculateRouteDistance(Append(assignmentsBeforeSweep(k, d), swept[k]), d),
        calculateRouteDistance(assignmentsBeforeSweep(k, d), d))

\* the driver that carries passenger p
driverOf(p) == CHOOSE d \in DOMAIN assignments : p \in SeqToSet(assignments[d])

\* the drivers the sweep could give swept[k] to
sweepChoices(k) ==
    { d \in SeqToSet(activeDrivers) :
        ~drivers[d].leavingEarly /\ seatsBeforeSweep(k, d) > 0 }

\* C11 (sweep choice): every passenger the outbound sweep placed went to a
\* driver that is not leaving early and had a seat, no other such driver's
\* route would have grown by less, and the remaining seats of every driver
\* are its seats minus the passengers it carries.
C11_SweepLeastAdditionalDetour ==
    pc \in {"build", "done"} =>
        /\ \A k \in 1..Len(swept) :
              /\ driverOf(swept[k]) \in sweepChoices(k)
              /\ \A d \in sweepChoices(k) :
                    ~Lt(additionalDetour(k, d), additionalDetour(k, driverOf(swept[k])))
        /\ \A d \in DOMAIN assignments :
              availableSeats[d] = drivers[d].availableSeats - Len(assignments[d])

\* the drivers that take part in the run
UsableDrivers == { d \in 1..Len(drivers) : drivers[d].canDrive /\ drivers[d].availableSeats > 0 }

\* rule 1: outbound, the passenger leaves early and no driver does
earlyMismatch(p) ==
    /\ tripDirection = FROM_EVENT
    /\ passengers[p].leavingEarly
    /\ \A d \in UsableDrivers : ~drivers[d].leavingEarly

\* rule 2: no driver has a seat left
noSeatsLeft == \A d \in UsableDrivers : availableSeats[d] = 0

\* rule 3: the enforced same-gender preference meets no driver with a seat
genderUnmet(p) ==
    /\ config.enforceGenderPreference
    /\ passengers[p].genderPreference = SAME_GENDER
    /\ \A d \in UsableDrivers :
          drivers[d].gender = passengers[p].gender => availableSeats[d] <= 0

\* C12 (unmatched reason): the reason of every unmatched passenger is that of
\* the first rule that applies on the final ledger: early_departure_mismatch,
\* no_seats_available, gender_preference_unmet, and no_available_drivers when
\* none of the three applies.
C12_UnmatchedReason ==
    Done =>
        \A i \in 1..Len(result.unmatchedPassengers) :
            LET p == result.unmatchedPassengers[i].id
                reason == result.unmatchedPassengers[i].reason
            IN  /\ earlyMismatch(p) => reason = "early_departure_mismatch"
                /\ (~earlyMismatch(p) /\ noSeatsLeft) => reason = "no_seats_available"
                /\ (~earlyMismatch(p) /\ ~noSeatsLeft /\ genderUnmet(p))
                      => reason = "gender_preference_unmet"
                /\ (~earlyMismatch(p) /\ ~noSeatsLeft /\ ~genderUnmet(p))
                      => reason = "no_available_drivers"

\* an early leaver is unmatched for want of an early driver although every
\* seat is taken as well
C12_Witness ==
    /\ Done
    /\ noSeatsLeft
    /\ UsableDrivers # {}
    /\ \E i \in 1..Len(result.unmatchedPassengers) :
          /\ earlyMismatch(result.unmatchedPassengers[i].id)
          /\ result.unmatchedPassengers[i].reason = "early_departure_mismatch"

\* C13 (missing coordinates): a passenger without home coordinates is never
\* assigned and, if it needs a ride, ends in unmatchedPassengers; a driver
\* without home coordinates never receives a passenger; and match() fails
\* only on the validation of eventStartTime.
C13_MissingCoordinates ==
    /\ contextBuilt =>
          \A d \in DOMAIN assignments :
              /\ drivers[d].pos = NoCoord => assignments[d] = << >>
              /\ \A i \in 1..Len(assignments[d]) :
                    passengers[assignments[d][i]].pos # NoCoord
    /\ Done =>
          /\ \A p \in NeedsRide :
                passengers[p].pos = NoCoord =>
                    placements(p) = {} /\ unmatchedEntries(p) # {}
          /\ \A g \in 1..Len(result.rideGroups) :
                drivers[result.rideGroups[g].driver].pos = NoCoord
                    => result.rideGroups[g].passengers = << >>
    /\ pc = "error" => (tripDirection = TO_EVENT /\ eventStartTime = undefined)

\* an outbound run has returned: a passenger without coordinates that the
\* sweep looked at is unmatched although a driver with coordinates has a
\* seat, and a driver without coordinates has an empty group
C13_Witness ==
    /\ Done
    /\ tripDirection = FROM_EVENT
    /\ \E p \in NeedsRide :
          /\ passengers[p].pos = NoCoord
          /\ ~passengers[p].leavingEarly
          /\ unmatchedEntries(p) # {}
    /\ \E d \in UsableDrivers :
          /\ drivers[d].pos # NoCoord
          /\ ~drivers[d].leavingEarly
          /\ availableSeats[d] > 0
    /\ \E d \in UsableDrivers : drivers[d].pos = NoCoord

\* the ride groups of the result that belong to driver d
groupsOf(d) == { g \in 1..Len(result.rideGroups) : result.rideGroups[g].driver = d }

\* the entries of unmatchedDrivers that hold driver d
unmatchedDriverEntries(d) ==
    { i \in 1..Len(result.unmatchedDrivers) : result.unmatchedDrivers[i] = d }

\* C14 (one ride group per driver): the result has exactly one ride group for
\* every input driver with canDrive and availableSeats > 0 and none for any
\* other driver, and unmatchedDrivers lists, once each, exactly the drivers
\* whose ride group has no passengers.
C14_OneGroupPerDriver ==
    Done =>
        \A d \in 1..Len(drivers) :
            IF d \in UsableDrivers
            THEN /\ Cardinality(groupsOf(d)) = 1
                 /\ \A g \in groupsOf(d) :
                       Cardinality(unmatchedDriverEntries(d))
                           = IF result.rideGroups[g].passengers = << >> THEN 1 ELSE 0
            ELSE groupsOf(d) = {} /\ unmatchedDriverEntries(d) = {}

\* a result with the empty group of an unmatched driver next to a group with
\* passengers
C14_Witness ==
    /\ Done
    /\ \E g, h \in 1..Len(result.rideGroups) :
          /\ result.rideGroups[g].passengers = << >>
          /\ unmatchedDriverEntries(result.rideGroups[g].driver) # {}
          /\ result.rideGroups[h].passengers # << >>

\* C15 (empty passenger input) as stated: when no input passenger needs a
\* ride, the rideGroups list of the result is empty and unmatchedDrivers
\* holds all the drivers that pass the filter.
C15_EmptyPassengers ==
    (Done /\ NeedsRide = {}) =>
        /\ result.rideGroups = << >>
        /\ \A d \in 1..Len(drivers) :
              Cardinality(unmatchedDriverEntries(d)) = IF d \in UsableDrivers THEN 1 ELSE 0

\* C15 as amended: when no input passenger needs a ride, rideGroups holds one
\* ride group without passengers for every driver that passes the filter and
\* no other group, unmatchedDrivers holds those drivers once each, and
\* unmatchedPassengers is empty.
C15_EmptyPassengersEmptyGroups ==
    (Done /\ NeedsRide = {}) =>
        /\ Len(result.rideGroups) = Cardinality(UsableDrivers)
        /\ \A g \in 1..Len(result.rideGroups) : result.rideGroups[g].passengers = << >>
        /\ \A d \in 1..Len(drivers) :
              /\ Cardinality(groupsOf(d)) = IF d \in UsableDrivers THEN 1 ELSE 0
              /\ Cardinality(unmatchedDriverEntries(d)) = IF d \in UsableDrivers THEN 1 ELSE 0
        /\ result.unmatchedPassengers = << >>

\* a run without passengers has returned the groups of one driver that passes
\* the filter, with an input driver that does not
C15_Witness ==
    /\ Done
    /\ NeedsRide = {}
    /\ Cardinality(UsableDrivers) = 1
    /\ Len(drivers) = 2
    /\ Len(result.rideGroups) = 1

\* C16 (empty driver input): when no input driver passes the filter, every
\* passenger that needs a ride is unmatched, with the reason
\* early_departure_mismatch if the run is outbound and the passenger leaves
\* early, and no_available_drivers otherwise.
C16_EmptyDrivers ==
    (Done /\ UsableDrivers = {}) =>
        \A p \in NeedsRide :
            /\ Cardinality(unmatchedEntries(p)) = 1
            /\ \A i \in unmatchedEntries(p) :
                  result.unmatchedPassengers[i].reason =
                      IF tripDirection = FROM_EVENT /\ passengers[p].leavingEarly
                      THEN "early_departure_mismatch"
                      ELSE "no_available_drivers"

\* the stops of the result: (group, position) pairs
allStops ==
    UNION { { << g, i >> : i \in 1..Len(result.rideGroups[g].passengers) } :
            g \in 1..Len(result.rideGroups) }

\* the ride groups of the result with at least one passenger
carryingGroups ==
    { g \in 1..Len(result.rideGroups) : result.rideGroups[g].passengers # << >> }

\* C17 (metadata counts): totalPassengers counts the input passengers with
\* needsRide, totalDrivers the input drivers with canDrive and a seat,
\* matchedPassengers the passengers over all ride groups, matchedDrivers the
\* ride groups with a passenger; matched plus unmatched gives the total, for
\* passengers and for drivers.
C17_MetadataCounts ==
    Done =>
        LET md == result.metadata
        IN  /\ md.totalPassengers = Cardinality(NeedsRide)
            /\ md.totalDrivers = Cardinality(UsableDrivers)
            /\ md.matchedPassengers = Cardinality(allStops)
            /\ md.matchedDrivers = Cardinality(carryingGroups)
            /\ md.matchedPassengers + Len(result.unmatchedPassengers) = md.totalPassengers
            /\ md.matchedDrivers + Len(result.unmatchedDrivers) = md.totalDrivers

\* a run that ignored a passenger and a driver of the input and matched at
\* least one passenger
C17_Witness ==
    /\ Done
    /\ \E p \in 1..Len(passengers) : p \notin NeedsRide
    /\ \E d \in 1..Len(drivers) : d \notin UsableDrivers
    /\ result.metadata.matchedPassengers >= 1
    /\ result.metadata.matchedDrivers >= 1

\* C18 (config override merge): the effective config of a match() with
\* configOverrides has, for every weight field, the overriding value if the
\* overrides' weights set the field and the base config's value otherwise,
\* and for every other field the overriding value if the overrides set the
\* field and the base config's value otherwise.
C18_WeightsMergedFieldwise ==
    lastCall.op = "match" =>
        LET base == lastCall.base
            ov == lastCall.configOverrides
        IN  /\ \A k \in DOMAIN base \ {"weights"} :
                  effectiveConfig[k] = IF k \in DOMAIN ov THEN ov[k] ELSE base[k]
            /\ \A f \in WeightFields :
                  /\ f \in DOMAIN effectiveConfig.weights
                  /\ effectiveConfig.weights[f] =
                        IF "weights" \in DOMAIN ov /\ f \in DOMAIN ov.weights
                        THEN ov.weights[f] ELSE base.weights[f]

\* the weights are within 0.01 of 1.0 (hundredths: within 1 of 100)
weightsValid(weights) == Abs(weightSum(weights) - 100) <= 1

\* C19 (weight validation at save time): a saveConfig call with a config
\* whose weights sum more than 0.01 away from 1.0 throws and leaves the stored
\* configs and the default config id as they were; and in every state every
\* stored config has weights that sum within 0.01 of 1.0.
C19_WeightsValidated ==
    /\ [](\A id \in DOMAIN configs : weightsValid(configs[id].weights))
    /\ [][ (lastCall'.op = "saveConfig" /\ ~weightsValid(lastCall'.config.weights))
             => /\ thrown'
                /\ configs' = configs
                /\ defaultConfigId' = defaultConfigId ]_vars

\* a save of a default-to-be config with invalid weights was rejected while
\* two valid configs are stored
C19_Witness ==
    /\ lastCall.op = "saveConfig"
    /\ ~weightsValid(lastCall.config.weights)
    /\ lastCall.config.isDefault
    /\ thrown
    /\ DOMAIN configs = ConfigIds
    /\ defaultConfigId # lastCall.config.id

C21_NullDetourScore ==
    [][ AssignPassengers =>
          LET d == Head(queue)[1]
              earlyOnly == Head(queue)[2]
          IN  \A i \in 1..Len(candidates(earlyOnly)) :
                LET p == candidates(earlyOnly)[i]
                IN  ( /\ ~TimingMatcher_scorePassenger(p, d).null
                      /\ passengers[p].pos # NoCoord /\ drivers[d].pos # NoCoord
                      /\ DetourMatcher_scorePassenger(p, d).null )
                    => IF isOutbound
                       THEN /\ ~RouteEfficiencyMatcher_scorePassenger(p, d).null
                            /\ ~GenderMatcher_scorePassenger(p, d).null
                            /\ scoreEntry(p, d) =
                                 << totalScore(p, d,
                                      RouteEfficiencyMatcher_scorePassenger(p, d),
                                      Score(config.maxDetourMiles, 10 * config.maxDetourMiles),
                                      GenderMatcher_scorePassenger(p, d),
                                      AgeMatcher_scorePassenger(p, d),
                                      DriverPreferenceMatcher_scorePassenger(p, d)) >>
                       ELSE /\ scoreEntry(p, d) = << >>
                            /\ p \notin SeqToSet(assignments'[d]) ]_vars

\* an inbound run has returned; a driver with a seat left was offered a
\* passenger whose detour alone exceeds the limit (a null detour score, the
\* driver's list being empty when it is processed), and the passenger, whom
\* the timing matcher accepts, is unmatched
C21_Witness ==
    /\ Done
    /\ tripDirection = TO_EVENT
    /\ previous = << >>
    /\ \E d \in DOMAIN assignments, p \in NeedsRide :
          /\ passengers[p].pos # NoCoord /\ drivers[d].pos # NoCoord
          /\ DetourMatcher_calculateTotalDetour(d, << p >>) > config.maxDetourMiles
          /\ ~TimingMatcher_scorePassenger(p, d).null
          /\ availableSeats[d] > 0
          /\ unmatchedEntries(p) # {}

\* the passengers a call of assignPassengersToDriver gives to driver d, in
\* the order in which it appends them
newlyAssigned(d) == SubSeq(assignments'[d], Len(assignments[d]) + 1, Len(assignments'[d]))

\* score entry a goes before score entry b: a strictly higher score, or the
\* same score and an earlier place among the candidates cs
goesBefore(a, b, cs) ==
    \/ scoreGreater(a, b)
    \/ /\ ~scoreGreater(b, a)
       /\ \E i, j \in 1..Len(cs) : i < j /\ cs[i] = a.passenger /\ cs[j] = b.passenger

assignmentRecorded(S) ==
    /\ S.passenger \notin SeqToSet(S.availablePassengers)
    /\ S.assignments[S.driver] # << >>
    /\ S.assignments[S.driver][Len(S.assignments[S.driver])] = S.passenger
    /\ \A d1, d2 \in DOMAIN S.assignments :
          d1 # d2 => SeqToSet(S.assignments[d1]) \cap SeqToSet(S.assignments[d2]) = {}

\* in ledger S driver d's seat count is the driver's seats less the length
\* of the driver's list
seatsCounted(S, d) ==
    S.availableSeats[d] = drivers[d].availableSeats - Len(S.assignments[d])

\* C23 (ledger consistency after each assignment), as stated: right after
\* every single assignment, in the scoring pass and in the sweep pass, the
\* passenger is no longer available, is the last element of the driver's
\* list, no passenger is in two drivers' lists, and availableSeats[driver] is
\* driver.availableSeats minus the length of the driver's list.
C23_LedgerAfterEachAssignment ==
    \A k \in 1..Len(steps) :
        assignmentRecorded(steps[k]) /\ seatsCounted(steps[k], steps[k].driver)

\* C23, amended: right after every single assignment, in both passes, the
\* passenger is no longer available, is the last element of the driver's
\* list and no passenger is in two drivers' lists; availableSeats[driver] is
\* driver.availableSeats minus the length of the driver's list right after
\* every assignment of the sweep pass and, for every driver, whenever a call
\* of assignPassengersToDriver or the sweep has returned.
C23_LedgerAfterEachPass ==
    /\ \A k \in 1..Len(steps) :
          /\ assignmentRecorded(steps[k])
          /\ steps[k].pass = "sweep" => seatsCounted(steps[k], steps[k].driver)
    /\ contextBuilt => \A d \in DOMAIN assignments : seatsCounted(Ledger, d)

\* the sweep has given a second passenger to a driver that the scoring pass
\* had given one
C23_Witness ==
    /\ Done
    /\ steps # << >>
    /\ steps[1].pass = "sweep"
    /\ Len(steps[1].assignments[steps[1].driver]) = 2
    /\ Len(processed) = 2

\* C24 (inbound assignment-time detour check): on a TO_EVENT run, right after
\* every single assignment the route driver home -> the driver's passengers
\* in insertion order -> event exceeds the driver's direct distance by at most
\* maxDetourMiles; every assignment is made by the scoring pass, none by a
\* sweep; and when match() has returned, every passenger who needs a ride and
\* is in no driver's list is in unmatchedPassengers and in no ride group.
C24_InboundDetourAtAssignment ==
    tripDirection = TO_EVENT =>
        /\ \A k \in 1..Len(steps) :
              LET newDetour == DetourMatcher_calculateTotalDetour(
                                   steps[k].driver, steps[k].assignments[steps[k].driver])
              IN  /\ steps[k].pass = "scoring"
                  /\ newDetour # NaN
                  /\ newDetour <= config.maxDetourMiles
        /\ swept = << >>
        /\ Done => \A p \in NeedsRide :
                      (\A d \in DOMAIN assignments : p \notin SeqToSet(assignments[d]))
                          => unmatchedEntries(p) # {} /\ placements(p) = {}

\* an inbound run has returned: the last driver processed was given two
\* passengers, and a passenger with coordinates is unmatched although that
\* driver has a seat left
C24_Witness ==
    /\ Done
    /\ tripDirection = TO_EVENT
    /\ Len(steps) = 2
    /\ availableSeats[steps[1].driver] > 0
    /\ \E p \in NeedsRide : passengers[p].pos # NoCoord /\ unmatchedEntries(p) # {}

\* C25 (nearest-neighbour stop order): when match() has returned, the stops
\* of every ride group are the driver's assigned passengers, each once; the
\* stop at each place of the list is, among the stops from that place on, at
\* the least matrix distance from the previous stop (from the route origin for
\* the first: the event outbound, the driver's home inbound); detourAdded is
\* the leg from the previous stop and distanceFromOrigin is the sum of the
\* legs so far.
C25_NearestNeighborOrder ==
    Done =>
        \A g \in 1..Len(result.rideGroups) :
            LET G == result.rideGroups[g]
                stops == G.passengers
                at(i) == IF i = 0 THEN routeOrigin(G.driver) ELSE PId(stops[i].id)
            IN  /\ Len(stops) = Len(assignments[G.driver])
                /\ { stops[i].id : i \in 1..Len(stops) } = SeqToSet(assignments[G.driver])
                /\ \A i \in 1..Len(stops) :
                      /\ \A j \in i..Len(stops) :
                            distanceMatrix(at(i - 1), at(i)) <= distanceMatrix(at(i - 1), at(j))
                      /\ stops[i].detourAdded = distanceMatrix(at(i - 1), at(i))
                      /\ stops[i].distanceFromOrigin =
                            SumSeq([k \in 1..i |-> distanceMatrix(at(k - 1), at(k))])

\* a ride group of three stops at three places, in another order than the
\* one in which the passengers were assigned, the second stop further from
\* the route origin than the third
C25_Witness ==
    /\ Done
    /\ \E g \in 1..Len(result.rideGroups) :
          LET G == result.rideGroups[g]
          IN  /\ Len(G.passengers) = 3
              /\ [i \in 1..3 |-> G.passengers[i].id] # assignments[G.driver]
              /\ Cardinality({ passengers[G.passengers[i].id].pos : i \in 1..3 }) = 3
              /\ distanceMatrix(routeOrigin(G.driver), PId(G.passengers[2].id))
                    > distanceMatrix(routeOrigin(G.driver), PId(G.passengers[3].id))

\* C26 (early departure time compatibility): when a FROM_EVENT run has
\* returned, no ride group holds a passenger leaving early with a driver
\* leaving early where both have an explicit earlyDepartureTime and the
\* passenger's is strictly earlier than the driver's.
C26_EarlyDepartureTimes ==
    (Done /\ tripDirection = FROM_EVENT) =>
        \A g \in 1..Len(result.rideGroups) :
            LET G == result.rideGroups[g]
                D == drivers[G.driver]
            IN  \A i \in 1..Len(G.passengers) :
                    LET P == passengers[G.passengers[i].id]
                    IN  ~ ( /\ P.leavingEarly /\ D.leavingEarly
                            /\ P.earlyDepartureTime # undefined
                            /\ D.earlyDepartureTime # undefined
                            /\ P.earlyDepartureTime < D.earlyDepartureTime )

\* an outbound run has returned: a passenger leaving early at a time before
\* the departure of an early driver is unmatched, that driver has a seat left
\* and carries another early passenger
C26_Witness ==
    /\ Done
    /\ tripDirection = FROM_EVENT
    /\ \E p \in NeedsRide, d \in DOMAIN assignments :
          /\ passengers[p].leavingEarly /\ drivers[d].leavingEarly
          /\ passengers[p].earlyDepartureTime # undefined
          /\ drivers[d].earlyDepartureTime # undefined
          /\ passengers[p].earlyDepartureTime < drivers[d].earlyDepartureTime
          /\ unmatchedEntries(p) # {}
          /\ availableSeats[d] > 0
          /\ assignments[d] # << >>

\* the tentative pickup of passenger p is at an unreasonable hour: before
\* 05:00 UTC for an event before noon UTC, before 06:00 UTC otherwise
pickupTooEarly(p) ==
    LET pickupHour == getUTCHours(eventStartTime
                                  - travelTimeMs(distanceMatrix(PId(p), EventId))
                                  - loadTimeMinutes * MsPerMinute)
        eventHour == getUTCHours(eventStartTime)
    IN  \/ eventHour < 12 /\ pickupHour < 5
        \/ eventHour >= 12 /\ pickupHour < 6

C28_ChronologicalSchedule ==
    (Done /\ tripDirection = TO_EVENT) =>
        \A g \in 1..Len(result.rideGroups) :
            LET G == result.rideGroups[g]
                times == G.schedule.pickupTimes
            IN  (G.passengers # << >> /\ G.schedule.defined) =>
                    /\ G.schedule.driverDepartureTime <= times[1].time
                    /\ \A i, j \in 1..Len(times) : i < j => times[i].time <= times[j].time
                    /\ times[Len(times)].time <= G.schedule.estimatedArrivalTime

\* C29 (override works on a copy): when an override request has failed (an
\* Error was thrown), the result stored under the id, as GET /match/:resultId
\* returns it, is the result that was stored before the request.
C29_FailedOverrideLeavesResult ==
    (lastCall.op = "override" /\ thrown) => resultsStore["r1"] = lastCall.before

\* C30 (single default configuration): after any sequence of saveConfig,
\* deleteConfig, updatePriorityOrder and updateThreshold calls the store is
\* non-empty, the default config id names a stored config, exactly one stored
\* config has isDefault = true, and that config is the one getDefaultConfig
\* returns.
C30_SingleDefault ==
    /\ DOMAIN configs # {}
    /\ defaultConfigId \in DOMAIN configs
    /\ Cardinality({ id \in DOMAIN configs : configs[id].isDefault }) = 1
    /\ \A id \in DOMAIN configs :
          configs[id].isDefault => configs[id] = getDefaultConfig(Manager)

====
